---- MODULE Spec2Model ----
(***************************************************************************)
(* A model of the resource and execution core of caustix-viewer (crate     *)
(* cvk and crate utils):                                                   *)
(*   - the command buffer state machine CommandBuffer -> Recording ->      *)
(*     SubmittedRecording, its fence and the device executing its work     *)
(*     (crates/cvk/src/core/command_buffer.rs, crates/cvk/src/sync.rs);    *)
(*   - span arithmetic, ToSpan for every range descriptor                  *)
(*     (crates/utils/src/span.rs);                                         *)
(*   - region derivation and the host-mapped view of a region              *)
(*     (crates/cvk/src/resource/buffer.rs).                                *)
(*                                                                         *)
(* Device calls are taken to succeed: the device is an external            *)
(* collaborator and every one of its failures is an `expect` panic.        *)
(***************************************************************************)
EXTENDS Integers, Sequences, FiniteSets, TLC

VARIABLES
    cb,         \* the command buffer, its fence, its wrapper and its history
    parent,     \* span arithmetic: the span a descriptor is resolved against
    desc,       \* span arithmetic: the descriptor resolved last
    result,     \* span arithmetic: the outcome of the last to_span call
    buf,        \* region derivation: the buffer regions are derived from
    region,     \* region derivation: the current region of the chain
    view,       \* region derivation: the extent of the last mapped view
    chain,      \* two derivations a1..b1, a2..b2 in a row and the composed range
    copy,       \* the copy descriptors recorded by a buffer copy command
    ctx,        \* the global CONTEXT, its lock and the threads using it
    fw,         \* a fence of its own, waited on with a timeout
    bld,        \* a BufferBuilder, the allocator and the outcome of build()
    rt,         \* three buffers and the copies of a round trip between them
    rsc         \* device objects and the context each was created and destroyed through

vars == <<cb, parent, desc, result, buf, region, view, chain, copy, ctx, fw, bld, rt, rsc>>

cmdVars == <<cb>>
spanVars == <<parent, desc, result>>
regionVars == <<buf, region, view>>

\* ------------------------------------------------------------------
\* Bounds of the model
\* ------------------------------------------------------------------

\* Submissions of one command buffer explored.
MaxSubmits == 3

\* Commands a recording takes.
MaxCmds == 2

\* Element count of the buffers regions are derived from.
MaxCount == 5

\* Largest start or end of a descriptor used in a chain of derivations.
MaxIdx == 7

\* Derivations in one chain.
MaxDepth == 2

\* ------------------------------------------------------------------
\* Fence (crates/cvk/src/sync.rs)
\* ------------------------------------------------------------------

\* Fence::new(signaled)
FenceNew(signaled) == IF signaled THEN "signaled" ELSE "unsignaled"

\* A wait that comes back without the fence being signaled.
FenceWaitNoBlock(fence) == TRUE

\* Fence::wait: wait_for_fences with timeout u64::MAX returns once the fence
\* is signaled; the calling thread is blocked until then.
FenceWait(fence) == fence = "signaled"

\* Fence::reset
FenceReset(fence) == "unsignaled"

\* The largest finite timeout given to wait_with_timeout.
MaxTimeout == 3

\* The most waits made on the fence.
MaxWaits == 3

\* u64::MAX, the timeout of Fence::wait: it never elapses.
U64Max == MaxTimeout + 1

Timeouts == 0 .. U64Max

\* wait_for_fences: what the device call returns, "pending" while the
\* calling thread is still blocked in it.
WaitForFences(fence, remaining, lost) ==
    IF lost THEN "ERROR_DEVICE_LOST"
    ELSE IF FenceWait(fence) THEN "SUCCESS"
    ELSE IF remaining = 0 THEN "TIMEOUT"
    ELSE "pending"

\* What the caller of wait_with_timeout gets for a device result: the
\* function returns (), and expect panics on every Err with the message
\* "Failed to wait for fence" followed by the result's name.
WaitOutcome(res) ==
    IF res = "SUCCESS"
    THEN [kind |-> "returned", text |-> "none"]
    ELSE [kind |-> "panic", text |-> res]

\* ------------------------------------------------------------------
\* Command buffer (crates/cvk/src/core/command_buffer.rs)
\* ------------------------------------------------------------------

CommandBufferUses == {"Single", "Multi"}

\* The arguments of a queue_submit call: the number of SubmitInfos, the
\* command buffers of the first, the fence, and the buffer's usable flag
\* at the time of the call.
NoBatch == [infos |-> 0, buffers |-> << >>, fence |-> "none", usable |-> FALSE]

\* No command buffer allocated yet.
NoCommandBuffer ==
    [ owner       |-> "none",      \* the wrapper type that owns the buffer
      handle      |-> "none",      \* device handle: none, allocated, freed
      fence       |-> "none",      \* none, signaled, unsignaled, destroyed
      uses        |-> "Single",
      usable      |-> FALSE,
      inFlight    |-> FALSE,       \* submitted work the device has not finished
      panicked    |-> FALSE,       \* a precondition failure unwound the caller
      begins      |-> 0,           \* begin_command_buffer calls
      submits     |-> 0,           \* queue_submit calls
      cmds        |-> 0,           \* commands in the current recording
      droppedFrom |-> "none",      \* wrapper that was dropped
      last        |-> "none",      \* the call made last on the buffer
      mode        |-> "api",       \* api: driven call by call; rsu: run_single_use
      recorder    |-> "none",      \* run_single_use's recorder: running, returned, aborted
      plan        |-> 0,           \* commands the recorder means to record
      calls       |-> << >>,       \* device calls of the last submit, in order
      batch       |-> NoBatch,     \* what the last queue_submit was given
      failed      |-> "none" ]     \* the Err a device call of submit returned

\* CommandBuffer::new
New(uses) ==
    [ NoCommandBuffer EXCEPT
        !.owner = "CommandBuffer",
        !.handle = "allocated",
        !.fence = FenceNew(TRUE),
        !.uses = uses,
        !.usable = TRUE,
        !.last = "new" ]

\* A drop that frees without waiting for the fence.
DropNoWait(c) == TRUE

\* Drop for CommandBuffer, line 71: the drop goes on once the fence wait returns.
DropCanReturn(c) == FenceWait(c.fence)

\* Drop for CommandBuffer, then the drop of its fields: the handle is freed
\* and the fence destroyed.  Recording and SubmittedRecording own the
\* CommandBuffer, so dropping either runs the same code.
DropCommandBuffer(c) ==
    [ c EXCEPT
        !.droppedFrom = c.owner,
        !.owner = "dropped",
        !.handle = "freed",
        !.fence = "destroyed",
        !.last = "drop" ]

\* A panic unwinds the caller, which drops the command buffer it owns.
Unwind(c, call) == [ DropCommandBuffer(c) EXCEPT !.panicked = TRUE, !.last = call ]

\* start_recording without the usable assertion.
StartRecordingNoAssert(c) ==
    [ c EXCEPT !.owner = "Recording", !.begins = @ + 1, !.cmds = 0,
               !.last = "start_recording" ]

\* CommandBuffer::start_recording
StartRecording(c) ==
    IF ~c.usable
    THEN Unwind(c, "start_recording")
    ELSE [ c EXCEPT !.owner = "Recording", !.begins = @ + 1, !.cmds = 0,
               !.last = "start_recording" ]

\* CommandBuffer::start_recording returns (or unwinds) once its fence wait,
\* line 59, or the wait of the drop that unwinding runs, has returned.
StartRecordingCanReturn(c) ==
    IF ~c.usable THEN DropCanReturn(c) ELSE FenceWait(c.fence)

\* submit that leaves a Single-use buffer usable.
SubmitNeverConsumes(c) ==
    [ c EXCEPT
        !.owner = "SubmittedRecording",
        !.fence = FenceReset(@),
        !.inFlight = TRUE,
        !.submits = @ + 1,
        !.last = "submit" ]

\* submit that consumes every buffer, Multi-use ones too.
SubmitAlwaysConsumes(c) ==
    [ c EXCEPT
        !.owner = "SubmittedRecording",
        !.usable = FALSE,
        !.fence = FenceReset(@),
        !.inFlight = TRUE,
        !.submits = @ + 1,
        !.last = "submit" ]

\* submit, line 86: end_command_buffer
EndRecording(c) == [ c EXCEPT !.calls = <<"end_command_buffer">> ]

\* submit, lines 93-95: a Single-use buffer is marked as used up
MarkUsed(c) == [ c EXCEPT !.usable = IF c.uses = "Single" THEN FALSE ELSE @ ]

\* submit, line 96: fence.reset()
ResetFence(c) ==
    [ c EXCEPT !.fence = FenceReset(@), !.calls = Append(@, "reset_fences") ]

\* submit, line 98: queue_submit(main_queue, &[submit_info], fence) with
\* submit_info holding [self.handle()]
QueueSubmit(c) ==
    [ c EXCEPT
        !.calls = Append(@, "queue_submit"),
        !.batch = [infos |-> 1, buffers |-> <<"self.handle">>,
                   fence |-> "self.cmd_buf.fence", usable |-> c.usable],
        !.inFlight = TRUE,
        !.submits = @ + 1 ]

\* submit that hands the batch to the queue before it resets the fence
\* and marks the buffer.
SubmitBeforeReset(c) ==
    [ MarkUsed(ResetFence(QueueSubmit(EndRecording(c)))) EXCEPT
        !.owner = "SubmittedRecording",
        !.last = "submit" ]

\* Recording::submit
Submit(c) ==
    [ QueueSubmit(ResetFence(MarkUsed(EndRecording(c)))) EXCEPT
        !.owner = "SubmittedRecording",
        !.last = "submit" ]

\* The device calls of submit, each of which may return an Err that
\* expect turns into a panic.
SubmitCalls == <<"end_command_buffer", "reset_fences", "queue_submit">>

\* The Errs told apart: one that leaves the device working, and the loss
\* of the device.
DeviceErrors == {"ERROR_OUT_OF_HOST_MEMORY", "ERROR_DEVICE_LOST"}

\* Recording::submit when its device call number `at` returns Err(res):
\* the statements before that call have run, expect panics, and the
\* unwinding holds the Recording (`mut self`) until it has dropped it.
SubmitFails(c, at, res) ==
    LET ended == [ c EXCEPT !.calls = <<"end_command_buffer">> ]
        reset == [ MarkUsed(ended) EXCEPT !.calls = Append(@, "reset_fences") ]
        queued == [ ResetFence(MarkUsed(ended)) EXCEPT !.calls = Append(@, "queue_submit") ]
        reached == IF at = 1 THEN ended ELSE IF at = 2 THEN reset ELSE queued
    IN  [ reached EXCEPT
            !.owner = "Unwinding",
            !.panicked = TRUE,
            !.failed = res,
            !.last = "submit" ]

\* What the fence wait of Drop for CommandBuffer returns during the
\* unwinding: wait_for_fences with the timeout u64::MAX.
UnwindWait(c) ==
    WaitForFences(c.fence, U64Max, c.failed = "ERROR_DEVICE_LOST")

\* The unwinding drops the Recording once the fence wait has returned:
\* after SUCCESS the handle is freed; an Err panics inside the drop,
\* which aborts the process.
UnwindDropped(c) ==
    IF UnwindWait(c) = "SUCCESS"
    THEN [ DropCommandBuffer([c EXCEPT !.owner = "Recording"]) EXCEPT !.last = "submit" ]
    ELSE [ c EXCEPT !.owner = "aborted", !.last = "abort" ]

\* SubmittedRecording::wait
Wait(c) == [ c EXCEPT !.owner = "CommandBuffer", !.last = "wait" ]

\* SubmittedRecording::wait returns once its fence wait has returned.
WaitCanReturn(c) == FenceWait(c.fence)

\* An unwinding of run_single_use that still submits the recording.
RunSingleUseUnwindSubmits(c) == Submit([ c EXCEPT !.recorder = "aborted", !.panicked = TRUE ])

\* run_single_use when the recorder panics: `recording` is dropped by the
\* unwinding and line 46 is never reached.
RunSingleUseUnwind(c) == Unwind([ c EXCEPT !.recorder = "aborted" ], "recorder")

\* ------------------------------------------------------------------
\* Span arithmetic (crates/utils/src/span.rs)
\* ------------------------------------------------------------------

\* The largest value of the unsigned primitive T (u64::MAX for
\* vk::DeviceSize, 2^w - 1 in general), scaled down.
MaxT == 15

T == 0 .. MaxT

\* T's `+`: the sum when it is representable, else the wrapped sum (a
\* build without overflow checks); Overflows tells the two apart.
Add(x, y) == (x + y) % (MaxT + 1)

Overflows(x, y) == x + y > MaxT

\* T's `-`, used only where the code has checked y < x.
Sub(x, y) == (x - y) % (MaxT + 1)

\* SpanPrimitive::saturating_sub
SaturatingSub(x, y) == IF x >= y THEN x - y ELSE 0

\* Span::new
SpanNew(offset, count) == [offset |-> offset, count |-> count]

\* Span::invalid
SpanInvalid == SpanNew(0, 0)

\* The range descriptors: a value of T, the six range types AnyRange
\* wraps, and Span itself.  start/end hold the fields the type has, 0 else.
Descriptors ==
    [kind : {"Value"}, start : T, end : {0}]
        \cup [kind : {"Range", "RangeInclusive", "Span"}, start : T, end : T]
        \cup [kind : {"RangeTo", "RangeToInclusive"}, start : {0}, end : T]
        \cup [kind : {"RangeFrom"}, start : T, end : {0}]
        \cup [kind : {"RangeFull"}, start : {0}, end : {0}]

NoDescriptor == [kind |-> "none", start |-> 0, end |-> 0]

\* ToSpan for Span: start is the descriptor's offset, end its count.
SpanToSpan(d, span) ==
    IF Add(d.start, d.end) <= span.count
    THEN SpanNew(Add(span.offset, d.start), d.end)
    ELSE SpanInvalid

\* ToSpan for T (a single index)
ValueToSpan(d, span) ==
    IF d.start < span.count
    THEN SpanNew(Add(span.offset, d.start), 1)
    ELSE SpanInvalid

\* a..b resolved with a strict bound check `end < span.count`.
RangeToSpanStrict(d, span) ==
    IF d.end < span.count
    THEN SpanNew(Add(span.offset, d.start), SaturatingSub(d.end, d.start))
    ELSE SpanInvalid

\* ToSpan for Range
RangeToSpan(d, span) ==
    IF d.end <= span.count
    THEN SpanNew(Add(span.offset, d.start), SaturatingSub(d.end, d.start))
    ELSE SpanInvalid

\* ToSpan for RangeInclusive
RangeInclusiveToSpan(d, span) ==
    IF d.end < span.count
    THEN SpanNew(Add(span.offset, d.start), Add(SaturatingSub(d.end, d.start), 1))
    ELSE SpanInvalid

\* ToSpan for RangeTo
RangeToToSpan(d, span) ==
    IF d.end <= span.count
    THEN SpanNew(span.offset, d.end)
    ELSE SpanInvalid

\* ToSpan for RangeToInclusive
RangeToInclusiveToSpan(d, span) ==
    IF d.end < span.count
    THEN SpanNew(span.offset, Add(d.end, 1))
    ELSE SpanInvalid

\* ToSpan for RangeFrom
RangeFromToSpan(d, span) ==
    IF d.start < span.count
    THEN SpanNew(Add(span.offset, d.start), Sub(span.count, d.start))
    ELSE SpanInvalid

\* ToSpan for RangeFull
RangeFullToSpan(d, span) == span

\* ToSpan for AnyRange (and for a Span descriptor): dispatch on the type.
ToSpan(d, span) ==
    CASE d.kind = "Value" -> ValueToSpan(d, span)
      [] d.kind = "Range" -> RangeToSpan(d, span)
      [] d.kind = "RangeInclusive" -> RangeInclusiveToSpan(d, span)
      [] d.kind = "RangeTo" -> RangeToToSpan(d, span)
      [] d.kind = "RangeToInclusive" -> RangeToInclusiveToSpan(d, span)
      [] d.kind = "RangeFrom" -> RangeFromToSpan(d, span)
      [] d.kind = "RangeFull" -> RangeFullToSpan(d, span)
      [] d.kind = "Span" -> SpanToSpan(d, span)

\* Whether a `+` evaluated by to_span overflows T.  A build with overflow
\* checks panics there, a build without them goes on with the wrapped sum.
ToSpanOverflows(d, span) ==
    CASE d.kind = "Value" -> d.start < span.count /\ Overflows(span.offset, d.start)
      [] d.kind = "Range" -> d.end <= span.count /\ Overflows(span.offset, d.start)
      [] d.kind = "RangeInclusive" ->
            d.end < span.count
                /\ (Overflows(span.offset, d.start)
                        \/ Overflows(SaturatingSub(d.end, d.start), 1))
      [] d.kind = "RangeTo" -> FALSE
      [] d.kind = "RangeToInclusive" -> d.end < span.count /\ Overflows(d.end, 1)
      [] d.kind = "RangeFrom" -> d.start < span.count /\ Overflows(span.offset, d.start)
      [] d.kind = "RangeFull" -> FALSE
      [] d.kind = "Span" ->
            Overflows(d.start, d.end)
                \/ (Add(d.start, d.end) <= span.count /\ Overflows(span.offset, d.start))

\* The outcomes of a to_span call: [panic |-> TRUE] is the overflow panic
\* of a build with overflow checks.
ToSpanOutcomes(d, span) ==
    IF ToSpanOverflows(d, span)
    THEN { [called |-> TRUE, panic |-> TRUE, overflow |-> TRUE, span |-> SpanInvalid],
           [called |-> TRUE, panic |-> FALSE, overflow |-> TRUE, span |-> ToSpan(d, span)] }
    ELSE { [called |-> TRUE, panic |-> FALSE, overflow |-> FALSE, span |-> ToSpan(d, span)] }

NoResult == [called |-> FALSE, panic |-> FALSE, overflow |-> FALSE, span |-> SpanInvalid]

\* The parent spans whose end offset + count is representable in T.
ValidSpans == { s \in [offset : T, count : T] : s.offset + s.count <= MaxT }

\* ------------------------------------------------------------------
\* Regions of a buffer (crates/cvk/src/resource/buffer.rs)
\* ------------------------------------------------------------------

\* The descriptors used in chains of derivations.
RegionDescriptors == { d \in Descriptors : d.start <= MaxIdx /\ d.end <= MaxIdx }

\* BufferRegionLike::span for &Buffer and &mut Buffer
BufferSpan(b) == SpanNew(0, b.count)

NoRegion == [derived |-> FALSE, panic |-> FALSE, depth |-> 0, span |-> SpanInvalid]

NoView == [taken |-> FALSE, offset |-> 0, count |-> 0]

\* GetBufferRegion for &Buffer (and GetBufferRegionMut for &mut Buffer):
\* the descriptor is resolved against the buffer's span.
BufferRegionOutcomes(b, d) ==
    { [derived |-> TRUE, panic |-> o.panic, depth |-> 1, span |-> o.span] :
        o \in ToSpanOutcomes(d, BufferSpan(b)) }

\* A derivation from a region that resolves the descriptor against the
\* region's length only, leaving out the region's own offset.
RegionRegionOutcomesRelative(r, d) ==
    { [derived |-> TRUE, panic |-> o.panic, depth |-> r.depth + 1, span |-> o.span] :
        o \in ToSpanOutcomes(d, SpanNew(0, r.span.count)) }

\* GetBufferRegion for BufferRegion (and the three impls for
\* BufferRegionMut): the descriptor is resolved against the region's span.
RegionRegionOutcomes(r, d) ==
    { [derived |-> TRUE, panic |-> o.panic, depth |-> r.depth + 1, span |-> o.span] :
        o \in ToSpanOutcomes(d, r.span) }

\* BufferRegionLike::mapped: None without a mapped pointer, otherwise the
\* slice of `count` elements that starts `offset` elements after it.
Mapped(b, span) ==
    IF b.mapped
    THEN [taken |-> TRUE, offset |-> span.offset, count |-> span.count]
    ELSE NoView

\* ------------------------------------------------------------------
\* Two derivations in a row
\* ------------------------------------------------------------------

\* The largest bound of the ranges a1..b1 and a2..b2.
MaxChainIdx == 4

\* The bounded ranges a..b used for the two derivations.
ChainRanges ==
    { d \in Descriptors :
        d.kind = "Range" /\ d.start <= MaxChainIdx /\ d.end <= MaxChainIdx }

\* The descriptors region A is derived from the buffer with.
ChainFirstDescriptors ==
    ChainRanges \cup { d \in Descriptors : d.kind = "RangeFull" }

\* Regions A, B = A.region(r1) and C = B.region(r2); step counts the
\* derivations made.
NoChain ==
    [step |-> 0, a |-> NoRegion, r1 |-> NoDescriptor, b |-> NoRegion,
     r2 |-> NoDescriptor, c |-> NoRegion]

\* ------------------------------------------------------------------
\* Buffer copy commands
\* ------------------------------------------------------------------

\* size_of::<T>() of the buffers' element type.
ElemSize == 2

\* The largest element count of the source and destination buffers.
MaxCopyCount == 2

\* The largest bound of the ranges of a BufferCopyRange.
MaxCopyIdx == 1

\* The largest length of the list given to copy_buffer_regions.
MaxPairs == 2

\* DeviceSize's `*`, as Add.
Mul(x, y) == (x * y) % (MaxT + 1)

MulOverflows(x, y) == x * y > MaxT

Min(x, y) == IF x <= y THEN x ELSE y

\* The spans of the non-empty regions of a buffer whose size in bytes
\* fits DeviceSize.
CopySpans ==
    { s \in [offset : 0 .. MaxCopyCount, count : 1 .. MaxCopyCount] :
        /\ s.offset + s.count <= MaxCopyCount
        /\ (s.offset + s.count) * ElemSize <= MaxT }

\* BufferCopyRange: a pair of AnyRange values.
CopyRanges ==
    LET any == { d \in Descriptors :
                    d.kind # "Span" /\ d.start <= MaxCopyIdx /\ d.end <= MaxCopyIdx }
    IN  [src : any, dst : any]

\* A vk::BufferCopy whose size is the source's, not the smaller one.
BufferCopyOfSource(s, d) ==
    [size |-> Mul(s.count, ElemSize),
     src_offset |-> Mul(s.offset, ElemSize),
     dst_offset |-> Mul(d.offset, ElemSize)]

\* vk::BufferCopy built from a source and a destination span.
BufferCopy(s, d) ==
    [size |-> Mul(Min(s.count, d.count), ElemSize),
     src_offset |-> Mul(s.offset, ElemSize),
     dst_offset |-> Mul(d.offset, ElemSize)]

BufferCopyOverflows(s, d) ==
    \/ MulOverflows(Min(s.count, d.count), ElemSize)
    \/ MulOverflows(s.offset, ElemSize)
    \/ MulOverflows(d.offset, ElemSize)

\* The outcomes of building the vk::BufferCopy: an overflowing `*` panics
\* in a build with overflow checks and wraps in one without.
BufferCopyOutcomes(s, d) ==
    IF BufferCopyOverflows(s, d)
    THEN { [panic |-> TRUE, raw |-> BufferCopy(SpanInvalid, SpanInvalid)],
           [panic |-> FALSE, raw |-> BufferCopy(s, d)] }
    ELSE { [panic |-> FALSE, raw |-> BufferCopy(s, d)] }

\* BufferCopyRange::to_vk
ToVkOutcomes(pair, src_span, dst_span) ==
    UNION { IF s.panic \/ d.panic
            THEN { [panic |-> TRUE, raw |-> BufferCopy(SpanInvalid, SpanInvalid)] }
            ELSE BufferCopyOutcomes(s.span, d.span) :
              s \in ToSpanOutcomes(pair.src, src_span),
              d \in ToSpanOutcomes(pair.dst, dst_span) }

\* The lists of at most MaxPairs copy ranges.
CopyRangeLists == UNION { [1 .. n -> CopyRanges] : n \in 0 .. MaxPairs }

\* A copy_buffer_regions that builds every descriptor from the first pair.
CopyBufferRegionsOutcomesOfFirst(src_span, dst_span, ranges) ==
    { [recorded |-> TRUE, panic |-> FALSE, call |-> "copy_buffer_regions",
       ranges |-> ranges,
       raw |-> [i \in 1 .. Len(ranges) |->
                    BufferCopy(ToSpan(ranges[1].src, src_span),
                               ToSpan(ranges[1].dst, dst_span))]] }

\* Recording::copy_buffer_regions: the descriptors of the ranges, in list
\* order, recorded by one cmd_copy_buffer call unless a to_vk call panics.
CopyBufferRegionsOutcomes(src_span, dst_span, ranges) ==
    LET outs == [i \in 1 .. Len(ranges) |-> ToVkOutcomes(ranges[i], src_span, dst_span)]
        picks == { f \in [1 .. Len(ranges) -> UNION { outs[i] : i \in 1 .. Len(ranges) }] :
                    \A i \in 1 .. Len(ranges) : f[i] \in outs[i] }
    IN  { IF \E i \in 1 .. Len(ranges) : f[i].panic
          THEN [recorded |-> FALSE, panic |-> TRUE, call |-> "copy_buffer_regions",
                ranges |-> ranges, raw |-> << >>]
          ELSE [recorded |-> TRUE, panic |-> FALSE, call |-> "copy_buffer_regions",
                ranges |-> ranges, raw |-> [i \in 1 .. Len(ranges) |-> f[i].raw]] :
            f \in picks }

\* Recording::copy_buffer: one descriptor built from the regions' spans.
CopyBufferOutcomes(src_span, dst_span) ==
    { IF o.panic
      THEN [recorded |-> FALSE, panic |-> TRUE, call |-> "copy_buffer",
            ranges |-> << >>, raw |-> << >>]
      ELSE [recorded |-> TRUE, panic |-> FALSE, call |-> "copy_buffer",
            ranges |-> << >>, raw |-> <<o.raw>>] :
        o \in BufferCopyOutcomes(src_span, dst_span) }

NoCopy ==
    [recorded |-> FALSE, panic |-> FALSE, call |-> "none", ranges |-> << >>, raw |-> << >>]

\* ------------------------------------------------------------------
\* The global context
\* ------------------------------------------------------------------

\* The threads that call into Context.
NumThreads == 2

\* The most shared guards one thread holds at a time.
MaxGuards == 2

\* The most calls of Context::init.
MaxInits == 2

Threads == 1 .. NumThreads

\* get, try_get and get_device take CONTEXT.read().
ReadOps == {"get", "try_get", "get_device"}

\* get_mut and try_get_mut take CONTEXT.write() and hand the guard out.
WriteOps == {"get_mut", "try_get_mut"}

\* init and destroy take CONTEXT.write() for the one assignment.
StoreOps == {"init", "destroy"}

\* A thread: pc is "read" / "write" while it is blocked in CONTEXT.read()
\* / CONTEXT.write() and "store" while init or destroy holds the lock;
\* shared counts its ContextReadGuards, excl is "mapped" for a
\* ContextWriteGuard and "store" for the guard of init or destroy; got,
\* seen and at are the last call's outcome, the value it found and the
\* number of stored contexts when it found it; made is what the thread's
\* last init constructed and did, in order.
IdleThread ==
    [pc |-> "idle", op |-> "none", shared |-> 0, excl |-> "none",
     panicked |-> FALSE, got |-> "none", seen |-> "none", at |-> 0,
     made |-> << >>]

\* static CONTEXT: the Option's state, the number of contexts stored so
\* far, the number of init calls, whether an init replaced a stored
\* context, the destroy calls of the last context dropped, in order, and
\* the threads.
NoContext ==
    [value |-> "None", gen |-> 0, inits |-> 0, replaced |-> FALSE,
     torn |-> << >>,
     thr |-> [t \in Threads |-> IdleThread]]

AnyShared(c) == \E t \in Threads : c.thr[t].shared > 0

AnyExcl(c) == \E t \in Threads : c.thr[t].excl # "none"

WriterWaiting(c) == \E t \in Threads : c.thr[t].pc = "write"

\* RwLock::read returns: no writer holds the lock and none waits for it.
ReadLockFree(c) == ~AnyExcl(c) /\ ~WriterWaiting(c)

\* A write lock that only excludes other writers.
WriteLockFreeAmongWriters(c) == ~AnyExcl(c)

\* RwLock::write returns: no guard of either kind is held.
WriteLockFree(c) == ~AnyExcl(c) /\ ~AnyShared(c)

\* An accessor that hands out a guard whatever the Option holds.
AccessorOutcomeUnchecked(op, value) == "guard"

\* What an accessor does with the Option it finds under the lock: map it
\* to a guard, return None (try_*), or panic in expect.
AccessorOutcome(op, value) ==
    IF value = "Some" THEN "guard"
    ELSE IF op \in {"try_get", "try_get_mut"} THEN "None"
    ELSE "panic"

\* The thread after an accessor found `value` under the lock, in the
\* context c.  A panic unwinds the thread, which drops its guards.
AfterAccessor(c, th, kind) ==
    LET o == AccessorOutcome(th.op, c.value)
    IN  [th EXCEPT
            !.pc = "idle",
            !.got = o,
            !.seen = c.value,
            !.at = c.gen,
            !.panicked = (o = "panic"),
            !.shared = IF o = "panic" THEN 0
                       ELSE IF o = "guard" /\ kind = "read" THEN @ + 1
                       ELSE @,
            !.excl = IF o = "guard" /\ kind = "write" THEN "mapped" ELSE "none"]

\* What Context::init creates before it takes the lock: Instance::new,
\* then Device::new (the logical device with its queues, then the
\* command pool), then the allocator.
ConstructSteps == <<"instance", "device", "command_pool", "allocator">>

\* The creations of an init in which `done` of them succeed; the next one
\* panics in its expect.
Construct(done) == SubSeq(ConstructSteps, 1, done)

\* struct Context: the fields in declaration order, which is the order
\* in which a dropped Context drops them.
ContextFields == <<"allocator", "device", "instance">>

\* The destroy calls of one field's drop: Drop for Device destroys the
\* command pool, then the device.
DropField(f) ==
    IF f = "device" THEN <<"command_pool", "device">> ELSE <<f>>

\* A Context dropped in the order in which init created its parts.
DropContextInstanceFirst(c) ==
    [c EXCEPT !.torn = DropField(ContextFields[3]) \o <<"device", "command_pool">>
                            \o DropField(ContextFields[1])]

\* The stored Context is dropped: its fields drop in declaration order.
DropContext(c) ==
    [c EXCEPT !.torn = DropField(ContextFields[1]) \o DropField(ContextFields[2])
                            \o DropField(ContextFields[3])]

\* Assigning to the Option drops the value it held.
DropStored(c) == IF c.value = "Some" THEN DropContext(c) ELSE c

\* Context::init's assignment: the context built by this call is stored,
\* whatever was stored before.
InitStore(c) ==
    [DropStored(c) EXCEPT !.value = "Some", !.gen = @ + 1,
              !.replaced = @ \/ c.value = "Some"]

\* Context::destroy's assignment
DestroyStore(c) == [DropStored(c) EXCEPT !.value = "None"]

\* ------------------------------------------------------------------
\* Fence waits with a timeout
\* ------------------------------------------------------------------

\* A fence with the wait made on it: remaining is what is left of the
\* timeout, lost whether the device was lost, res the device call's
\* result, outcome what the caller got.
NoFenceWait ==
    [fence |-> "none", call |-> "none", timeout |-> 0, remaining |-> 0,
     lost |-> FALSE, res |-> "none", outcome |-> WaitOutcome("SUCCESS"), waits |-> 0]

\* ------------------------------------------------------------------
\* BufferBuilder
\* ------------------------------------------------------------------

\* The largest argument of BufferBuilder::count.
MaxBuildCount == 3

\* The largest length of the slice given to BufferBuilder::data.
MaxDataLen == 3

\* The deepest nesting of staging builds the model follows.
MaxNesting == 2

\* The BufferUsage flags told apart.
Usages == {"TRANSFER_SRC", "TRANSFER_DST", "STORAGE_BUFFER"}

MemoryUsages == {"Auto", "PreferHost", "PreferDevice"}

NoData == [some |-> FALSE, len |-> 0]

\* BufferBuilder::default
DefaultBuilder ==
    [count |-> 1, data |-> NoData, usage |-> {}, memory_usage |-> "Auto",
     mapped_data |-> FALSE]

\* BufferBuilder::count with a non-zero argument
BuilderCount(cfg, size) == [cfg EXCEPT !.count = size]

\* BufferBuilder::data
BuilderData(cfg, len) == [cfg EXCEPT !.data = [some |-> TRUE, len |-> len]]

\* A staging buffer that may itself be filled by a transfer.
BuilderStagingBufferTransferDst(cfg) ==
    [cfg EXCEPT !.usage = {"TRANSFER_SRC", "TRANSFER_DST"},
                !.memory_usage = "PreferHost", !.mapped_data = TRUE]

\* BufferBuilder::staging_buffer on a builder whose usage is empty
BuilderStagingBuffer(cfg) ==
    [cfg EXCEPT !.usage = {"TRANSFER_SRC"}, !.memory_usage = "PreferHost",
                !.mapped_data = TRUE]

\* What the allocator does for the build at each nesting depth: whether
\* create_buffer_with_alignment succeeds, whether the allocation's mapped
\* pointer is null, and the value found in memory the build did not write
\* (a fresh allocation, the elements behind the end of a slice).
BuildEnvs == [0 .. MaxNesting -> [allocOk : BOOLEAN, ptrNull : BOOLEAN, garbage : 0 .. 1]]

\* The elements of the slice given to BufferBuilder::data: len values
\* that differ from each other.
DataOf(len) == [i \in 1 .. len |-> i]

\* The memory of a fresh allocation of count elements.
Uninitialized(count, garbage) == [i \in 1 .. count |-> garbage]

\* copy_nonoverlapping(data.as_ptr(), mapped_data.as_ptr(), count): count
\* elements are read, those behind the end of the data are whatever the
\* memory there holds.
CopyNonoverlapping(len, count, garbage) ==
    [i \in 1 .. count |-> IF i <= len THEN DataOf(len)[i] ELSE garbage]

\* A device that leaves the destination as it was.
ExecuteCopyNothing(raw, src, dst) == dst

\* The destination's elements after the device has executed the copy
\* `raw` from a buffer holding src into a buffer holding dst.
ExecuteCopy(raw, src, dst) ==
    LET n == raw.size \div ElemSize
        so == raw.src_offset \div ElemSize
        do == raw.dst_offset \div ElemSize
    IN  [i \in 1 .. Len(dst) |->
            IF i > do /\ i <= do + n /\ (i - do + so) \in 1 .. Len(src)
            THEN src[i - do + so]
            ELSE dst[i]]

\* The device calls of run_single_use with a recorder that records one
\* copy: new, start_recording, the recorder, submit, wait, drop; "wait"
\* is the return of the fence wait, after the copy has completed.
RunSingleUseTrace ==
    <<"allocate_command_buffers", "begin_command_buffer", "cmd_copy_buffer",
      "end_command_buffer", "reset_fences", "queue_submit", "wait",
      "free_command_buffers">>

\* What a build did: the buffer returned (built, count, mapped, contents)
\* or the panic, the create_buffer calls made, the allocations obtained
\* and freed, the elements copy_nonoverlapping read from the data
\* (overread: more than the data holds), the staging builds, the
\* single-use command buffers allocated and submitted, how deep the
\* staging builds nested, and the allocator and device calls in the order
\* they were made.
NoBuildOutcome ==
    [built |-> FALSE, panic |-> FALSE, message |-> "none", count |-> 0,
     mapped |-> FALSE, requests |-> 0, allocs |-> 0, frees |-> 0, copied |-> 0,
     overread |-> FALSE, staging |-> 0, cmdbufs |-> 0, submits |-> 0,
     nesting |-> 0, contents |-> << >>, trace |-> << >>]

\* A build without the assertion on the usage flags.
AssertUsageSkipped(cfg) == TRUE

\* build's first statement: assert!(!self.usage.is_empty(), ..)
AssertUsage(cfg) == cfg.usage # {}

\* A build without the assertion on TRANSFER_DST.
AssertTransferDstSkipped(cfg) == TRUE

\* assert!(self.usage.contains(BufferUsage::TRANSFER_DST), ..)
AssertTransferDst(cfg) == "TRANSFER_DST" \in cfg.usage

\* build's element count
BuildCount(cfg) ==
    IF cfg.data.some
    THEN (IF cfg.data.len >= cfg.count THEN cfg.data.len ELSE cfg.count)
    ELSE cfg.count

\* The calls of the staging path after the first allocation: the staging
\* build, run_single_use, and the drop of the staging buffer at the end
\* of its block.
StagingTrace(st) ==
    st.trace \o RunSingleUseTrace \o <<"destroy_staging">>

RECURSIVE Build(_, _, _)

\* Build for BufferBuilder::build, at nesting depth `depth`
Build(cfg, env, depth) ==
    IF ~AssertUsage(cfg)
    THEN [NoBuildOutcome EXCEPT !.panic = TRUE, !.message = "Buffer usage cannot be empty"]
    ELSE
    LET count == BuildCount(cfg)
        mapped == cfg.mapped_data /\ ~env[depth].ptrNull
        garbage == env[depth].garbage
        requested == [NoBuildOutcome EXCEPT !.requests = 1, !.trace = <<"create_buffer">>]
        buffer == [requested EXCEPT !.allocs = 1, !.count = count, !.mapped = mapped,
                                    !.contents = Uninitialized(count, garbage)]
    IN  IF ~env[depth].allocOk
        THEN [requested EXCEPT !.panic = TRUE, !.message = "Failed to create buffer"]
        ELSE IF ~cfg.data.some
        THEN [buffer EXCEPT !.built = TRUE]
        ELSE IF mapped
        THEN [buffer EXCEPT !.built = TRUE, !.copied = count,
                            !.overread = count > cfg.data.len,
                            !.contents = CopyNonoverlapping(cfg.data.len, count, garbage)]
        ELSE IF ~AssertTransferDst(cfg)
        THEN [buffer EXCEPT
                !.panic = TRUE,
                !.message = "Building buffer with data and unmapped memory needs usage TRANSFER_DST",
                !.frees = 1,
                !.contents = << >>,
                !.trace = @ \o <<"destroy_buffer">>]
        ELSE IF depth >= MaxNesting
        THEN [buffer EXCEPT
                !.panic = TRUE,
                !.message = "staging builds nested deeper than MaxNesting",
                !.frees = 1,
                !.nesting = 1,
                !.contents = << >>,
                !.trace = @ \o <<"destroy_buffer">>]
        ELSE
        LET st == Build(BuilderData(BuilderStagingBuffer(DefaultBuilder), cfg.data.len),
                        env, depth + 1)
            both == [buffer EXCEPT
                        !.nesting = 1 + st.nesting,
                        !.requests = 1 + st.requests,
                        !.allocs = 1 + st.allocs,
                        !.frees = 1 + st.frees,
                        !.copied = st.copied,
                        !.overread = st.overread,
                        !.staging = 1 + st.staging]
        IN  IF st.panic
            THEN [both EXCEPT !.panic = TRUE, !.message = st.message,
                              !.contents = << >>,
                              !.trace = @ \o st.trace \o <<"destroy_buffer">>]
            ELSE [both EXCEPT
                    !.built = TRUE,
                    !.cmdbufs = 1 + st.cmdbufs,
                    !.submits = 1 + st.submits,
                    !.contents = ExecuteCopy(BufferCopy(SpanNew(0, st.count), SpanNew(0, count)),
                                             st.contents, @),
                    !.trace = @ \o StagingTrace(st)]

\* The builder of a host-mapped buffer of count elements without data.
HostBuilder(count) ==
    BuilderCount([BuilderStagingBuffer(DefaultBuilder) EXCEPT
                    !.usage = {"TRANSFER_SRC", "TRANSFER_DST"}], count)

\* The builder of a device-preferred buffer of count elements.
DeviceBuilder(count) ==
    BuilderCount([DefaultBuilder EXCEPT
                    !.usage = {"TRANSFER_SRC", "TRANSFER_DST"},
                    !.memory_usage = "PreferDevice"], count)

\* A round trip: the staging buffer a built from n elements of data, the
\* device buffer b, the second host buffer c, the copy submitted and not
\* yet executed, the fence of its command buffer, and how far the
\* caller has got.
NoRoundTrip ==
    [step |-> "none", n |-> 0, a |-> NoBuildOutcome, b |-> NoBuildOutcome,
     c |-> NoBuildOutcome, pending |-> "none", fence |-> "signaled",
     panicked |-> FALSE]

\* A Buffer dropped without a call of destroy_buffer.
DropBufferLeaks(out) == out

\* Drop for Buffer: destroy_buffer frees the allocation.
DropBuffer(out) ==
    [out EXCEPT !.frees = @ + 1, !.trace = Append(@, "destroy_buffer")]

\* A builder, the build made from it, and whether the Buffer it returned
\* has been dropped.
NoBuild ==
    [cfg |-> DefaultBuilder, last |-> "none", panicked |-> FALSE, called |-> FALSE,
     dropped |-> FALSE, out |-> NoBuildOutcome]

\* ------------------------------------------------------------------
\* Device objects and the context they belong to
\* ------------------------------------------------------------------

\* The device objects of one run.
MaxResources == 2

Resources == 1 .. MaxResources

\* The owners of device objects: Buffer (an allocation of the
\* allocator), Fence and CommandBuffer (objects of the device).
ResourceKinds == {"Buffer", "Fence", "CommandBuffer"}

\* A device object: made is the stored context (its number in the order
\* of the stores) it was created through, freed the one its destroy call
\* was made through.
NoResource == [kind |-> "none", state |-> "none", made |-> 0, freed |-> 0]

\* The objects and whether a panic has ended the run.
NoResources == [objs |-> [i \in Resources |-> NoResource], panicked |-> FALSE]

\* Buffer::build, Fence::new, CommandBuffer::new: the create call goes
\* to the device or allocator of the context Context::get() finds.
CreateResource(c, kind) ==
    IF AccessorOutcome("get", c.value) = "guard"
    THEN [NoResource EXCEPT !.kind = kind, !.state = "live", !.made = c.gen]
    ELSE [NoResource EXCEPT !.kind = kind, !.state = "failed"]

\* Drop for Buffer, Fence and CommandBuffer: the destroy call goes to
\* the device or allocator of the context Context::get() finds at the
\* drop; with no context stored the accessor panics and nothing is
\* released.
DropResource(c, r) ==
    IF AccessorOutcome("get", c.value) = "guard"
    THEN [r EXCEPT !.state = "destroyed", !.freed = c.gen]
    ELSE [r EXCEPT !.state = "leaked"]

\* ------------------------------------------------------------------
\* Actions: the command buffer
\* ------------------------------------------------------------------

CmdInit ==
    /\ cb = NoCommandBuffer
    /\ parent = SpanInvalid
    /\ desc = NoDescriptor
    /\ result = NoResult
    /\ buf = [count |-> 1, mapped |-> FALSE]
    /\ region = NoRegion
    /\ view = NoView
    /\ chain = NoChain
    /\ copy = NoCopy
    /\ ctx = NoContext
    /\ fw = NoFenceWait
    /\ bld = NoBuild
    /\ rt = NoRoundTrip
    /\ rsc = NoResources

\* CommandBuffer::new(uses)
CallNew ==
    /\ cb.owner = "none"
    /\ \E uses \in CommandBufferUses : cb' = New(uses)
    /\ UNCHANGED <<spanVars, regionVars, chain, copy, ctx, fw, bld, rt, rsc>>

\* CommandBuffer::start_recording on a command buffer the caller owns
CallStartRecording ==
    /\ cb.mode = "api"
    /\ cb.owner = "CommandBuffer"
    /\ cb.begins < MaxSubmits + 1
    /\ StartRecordingCanReturn(cb)
    /\ cb' = StartRecording(cb)
    /\ UNCHANGED <<spanVars, regionVars, chain, copy, ctx, fw, bld, rt, rsc>>

\* A command recorded into the open recording (Recording::copy_buffer, ...)
CallRecord ==
    /\ cb.mode = "api"
    /\ cb.owner = "Recording"
    /\ cb.cmds < MaxCmds
    /\ cb' = [cb EXCEPT !.cmds = @ + 1, !.last = "record"]
    /\ UNCHANGED <<spanVars, regionVars, chain, copy, ctx, fw, bld, rt, rsc>>

\* Recording::submit
CallSubmit ==
    /\ cb.mode = "api"
    /\ cb.owner = "Recording"
    /\ cb.submits < MaxSubmits
    /\ cb' = Submit(cb)
    /\ UNCHANGED <<spanVars, regionVars, chain, copy, ctx, fw, bld, rt, rsc>>

\* SubmittedRecording::wait
CallWait ==
    /\ cb.mode = "api"
    /\ cb.owner = "SubmittedRecording"
    /\ WaitCanReturn(cb)
    /\ cb' = Wait(cb)
    /\ UNCHANGED <<spanVars, regionVars, chain, copy, ctx, fw, bld, rt, rsc>>

\* The caller drops whichever wrapper it owns.
CallDrop ==
    /\ cb.mode = "api"
    /\ cb.owner \in {"CommandBuffer", "Recording", "SubmittedRecording"}
    /\ DropCanReturn(cb)
    /\ cb' = DropCommandBuffer(cb)
    /\ UNCHANGED <<spanVars, regionVars, chain, copy, ctx, fw, bld, rt, rsc>>

\* The device finishes the submitted batch and signals the fence that
\* queue_submit was given.
DeviceComplete ==
    /\ cb.inFlight
    /\ cb.fence = "unsignaled"
    /\ cb' = [cb EXCEPT !.inFlight = FALSE, !.fence = "signaled"]
    /\ UNCHANGED <<spanVars, regionVars, chain, copy, ctx, fw, bld, rt, rsc>>

\* CommandBuffer::run_single_use up to the call of the recorder, line 42:
\* a Single-use buffer is allocated and recording is started on it.
RunSingleUseStart ==
    /\ cb.owner = "none"
    /\ \E plan \in 0 .. MaxCmds :
        LET c == [New("Single") EXCEPT !.mode = "rsu", !.recorder = "running", !.plan = plan]
        IN  /\ StartRecordingCanReturn(c)
            /\ cb' = StartRecording(c)
    /\ UNCHANGED <<spanVars, regionVars, chain, copy, ctx, fw, bld, rt, rsc>>

\* The recorder records one of its commands.
RecorderRecords ==
    /\ cb.mode = "rsu"
    /\ cb.recorder = "running"
    /\ cb.owner = "Recording"
    /\ cb.cmds < cb.plan
    /\ cb' = [cb EXCEPT !.cmds = @ + 1, !.last = "record"]
    /\ UNCHANGED <<spanVars, regionVars, chain, copy, ctx, fw, bld, rt, rsc>>

\* The recorder returns and run_single_use submits, line 46; it then blocks
\* in SubmittedRecording::wait.
RecorderReturns ==
    /\ cb.mode = "rsu"
    /\ cb.recorder = "running"
    /\ cb.owner = "Recording"
    /\ cb.cmds = cb.plan
    /\ cb' = Submit([cb EXCEPT !.recorder = "returned"])
    /\ UNCHANGED <<spanVars, regionVars, chain, copy, ctx, fw, bld, rt, rsc>>

\* The recorder panics, at any point of its recording.
RecorderAborts ==
    /\ cb.mode = "rsu"
    /\ cb.recorder = "running"
    /\ cb.owner = "Recording"
    /\ DropCanReturn(cb)
    /\ cb' = RunSingleUseUnwind(cb)
    /\ UNCHANGED <<spanVars, regionVars, chain, copy, ctx, fw, bld, rt, rsc>>

\* run_single_use's wait returns, the temporary CommandBuffer it yields is
\* dropped and run_single_use returns.
RunSingleUseReturns ==
    /\ cb.mode = "rsu"
    /\ cb.owner = "SubmittedRecording"
    /\ WaitCanReturn(cb)
    /\ DropCanReturn(Wait(cb))
    /\ cb' = DropCommandBuffer(Wait(cb))
    /\ UNCHANGED <<spanVars, regionVars, chain, copy, ctx, fw, bld, rt, rsc>>

Next ==
    \/ CallNew
    \/ CallStartRecording
    \/ CallRecord
    \/ CallSubmit
    \/ CallWait
    \/ CallDrop
    \/ DeviceComplete
    \/ RunSingleUseStart
    \/ RecorderRecords
    \/ RecorderReturns
    \/ RecorderAborts
    \/ RunSingleUseReturns

Init == CmdInit

Spec == Init /\ [][Next]_vars

\* ------------------------------------------------------------------
\* Properties of the command buffer state machine
\* ------------------------------------------------------------------

\* C1: a Single-use command buffer is submitted to the queue at most once,
\* whatever sequence of start_recording / submit / wait / drop is made on it.
C1_SingleSubmittedAtMostOnce ==
    cb.uses = "Single" => cb.submits <= 1

\* C1 witness: a Single-use buffer was submitted and wait gave it back to
\* the caller, who may go on calling.
C1_Witness ==
    /\ cb.uses = "Single"
    /\ cb.mode = "api"
    /\ cb.submits = 1
    /\ cb.owner = "CommandBuffer"
    /\ cb.last = "wait"

\* C2: when start_recording is called on a Single-use buffer that was
\* submitted, the call panics (the buffer is unwound and dropped) and no
\* begin_command_buffer call is made beyond the one of its only recording.
C2_ConsumedSingleRejectsStart ==
    (cb.uses = "Single" /\ cb.submits >= 1 /\ cb.last = "start_recording")
        => (cb.panicked /\ cb.owner = "dropped" /\ cb.begins = 1)

\* C2 witness: start_recording was called on a consumed Single-use buffer.
C2_Witness ==
    /\ cb.uses = "Single"
    /\ cb.mode = "api"
    /\ cb.submits = 1
    /\ cb.last = "start_recording"

\* C3: every step that makes a begin_command_buffer call starts in a state
\* where no submission of the buffer is in flight and, if there was a
\* submission, its fence is signaled.
C3_BeginOnlyAfterFenceSignaled ==
    [][ cb'.begins > cb.begins
            => (~cb.inFlight /\ (cb.submits > 0 => cb.fence = "signaled")) ]_vars

\* C3 witness: recording was begun again on a buffer submitted before.
C3_Witness ==
    /\ cb.owner = "Recording"
    /\ cb.begins >= 2
    /\ cb.submits >= 1
    /\ cb.last = "start_recording"

\* C4: every step that frees the device handle starts in a state where no
\* submitted work is in flight and the fence is signaled, whichever wrapper
\* is dropped.
C4_FreeOnlyAfterFenceSignaled ==
    [][ (cb'.handle = "freed" /\ cb.handle # "freed")
            => (~cb.inFlight /\ cb.fence = "signaled") ]_vars

\* C4 witness: a SubmittedRecording that was never waited on was dropped
\* and its handle freed.
C4_Witness ==
    /\ cb.droppedFrom = "SubmittedRecording"
    /\ cb.mode = "api"
    /\ cb.handle = "freed"

\* C5: a Multi-use buffer stays usable and never panics, and whenever the
\* caller holds it as a CommandBuffer, start_recording returns a Recording
\* without blocking.
C5_MultiCycleNeverFails ==
    cb.uses = "Multi" =>
        /\ cb.usable
        /\ ~cb.panicked
        /\ cb.owner = "CommandBuffer" =>
                (StartRecordingCanReturn(cb) /\ StartRecording(cb).owner = "Recording")

\* C5 witness: a Multi-use buffer is recording again after two full
\* start_recording -> submit -> wait cycles.
C5_Witness ==
    /\ cb.uses = "Multi"
    /\ cb.owner = "Recording"
    /\ cb.submits >= 2
    /\ cb.begins = cb.submits + 1

\* C6: in run_single_use the buffer is submitted only once the recorder has
\* returned with all its commands recorded; if the recorder panics the
\* buffer is never submitted, only freed.
C6_RunSingleUseAtomic ==
    cb.mode = "rsu" =>
        /\ cb.submits > 0 => (cb.recorder = "returned" /\ cb.cmds = cb.plan)
        /\ cb.recorder = "aborted" =>
                (cb.submits = 0 /\ ~cb.inFlight /\ cb.handle = "freed")

\* C6 witness: the recorder panicked half way through its recording and
\* the buffer was freed.
C6_Witness ==
    /\ cb.mode = "rsu"
    /\ cb.recorder = "aborted"
    /\ cb.cmds > 0
    /\ cb.cmds < cb.plan
    /\ cb.handle = "freed"

\* C28: the device calls of the last submit are end_command_buffer,
\* reset_fences, queue_submit in this order; queue_submit was given one
\* SubmitInfo holding this command buffer's handle alone and this command
\* buffer's fence; and a Single-use buffer was not usable at that call.
C28_SubmitOrder ==
    cb.submits > 0 =>
        /\ cb.calls = <<"end_command_buffer", "reset_fences", "queue_submit">>
        /\ cb.batch.infos = 1
        /\ cb.batch.buffers = <<"self.handle">>
        /\ cb.batch.fence = "self.cmd_buf.fence"
        /\ cb.uses = "Single" => ~cb.batch.usable

\* C28 witness: a Single-use buffer has just been submitted by a call of
\* submit.
C28_Witness ==
    /\ cb.uses = "Single"
    /\ cb.mode = "api"
    /\ cb.last = "submit"
    /\ cb.submits = 1
    /\ cb.inFlight

\* ------------------------------------------------------------------
\* Actions: the command buffer with failing device calls
\* ------------------------------------------------------------------

\* Recording::submit in which a device call returns an Err
CallSubmitFails ==
    /\ cb.mode = "api"
    /\ cb.owner = "Recording"
    /\ cb.submits < MaxSubmits
    /\ \E at \in 1 .. Len(SubmitCalls) : \E res \in DeviceErrors :
        cb' = SubmitFails(cb, at, res)
    /\ UNCHANGED <<spanVars, regionVars, chain, copy, ctx, fw, bld, rt, rsc>>

\* The recorder returns and the submit of run_single_use, line 46, has a
\* device call that returns an Err.
RecorderReturnsSubmitFails ==
    /\ cb.mode = "rsu"
    /\ cb.recorder = "running"
    /\ cb.owner = "Recording"
    /\ cb.cmds = cb.plan
    /\ \E at \in 1 .. Len(SubmitCalls) : \E res \in DeviceErrors :
        cb' = SubmitFails([cb EXCEPT !.recorder = "returned"], at, res)
    /\ UNCHANGED <<spanVars, regionVars, chain, copy, ctx, fw, bld, rt, rsc>>

\* The fence wait of the drop that the unwinding runs comes back.
UnwindDrops ==
    /\ cb.owner = "Unwinding"
    /\ UnwindWait(cb) # "pending"
    /\ cb' = UnwindDropped(cb)
    /\ UNCHANGED <<spanVars, regionVars, chain, copy, ctx, fw, bld, rt, rsc>>

FailNext ==
    \/ Next
    \/ CallSubmitFails
    \/ RecorderReturnsSubmitFails
    \/ UnwindDrops

\* The device finishes what it was given, and a thread whose wait can
\* come back goes on.
FailFairness ==
    /\ WF_vars(DeviceComplete)
    /\ WF_vars(UnwindDrops)
    /\ WF_vars(RunSingleUseReturns)

FailSpec == Init /\ [][FailNext]_vars /\ FailFairness

\* ------------------------------------------------------------------
\* Properties of the command buffer with failing device calls
\* ------------------------------------------------------------------

\* C31: the teardown of a command buffer always terminates, also after a
\* failed submit: the drop that the unwinding runs comes to its end.
C31_TeardownTerminates ==
    (cb.owner = "Unwinding") ~> (cb.owner \in {"dropped", "aborted"})

\* C34: a command buffer that is Unrecorded or Recording has a signaled
\* fence; its fence is unsignaled only while a submission is in flight;
\* so the drop of a command buffer that was not submitted does not
\* block.
C34_FenceSignaledUnlessInFlight ==
    /\ cb.owner \in {"CommandBuffer", "Recording"} => cb.fence = "signaled"
    /\ cb.fence = "unsignaled" => (cb.inFlight /\ cb.owner = "SubmittedRecording")
    /\ (cb.owner = "Unwinding" /\ ~cb.inFlight) => DropCanReturn(cb)

\* C35: when the device completes every submitted batch, a
\* run_single_use whose recorder has returned comes to its end, and a
\* run_single_use that has returned has no work in flight and has freed
\* its command buffer.
C35_RunSingleUseReturns ==
    /\ [](( cb.mode = "rsu" /\ cb.owner = "dropped" /\ ~cb.panicked)
            => (~cb.inFlight /\ cb.handle = "freed" /\ cb.submits = 1))
    /\ (cb.mode = "rsu" /\ cb.recorder = "returned")
            ~> (cb.owner \in {"dropped", "aborted"})

\* ------------------------------------------------------------------
\* Actions: span arithmetic
\* ------------------------------------------------------------------

SpanInit ==
    /\ cb = NoCommandBuffer
    /\ parent \in ValidSpans
    /\ desc = NoDescriptor
    /\ result = NoResult
    /\ buf = [count |-> 1, mapped |-> FALSE]
    /\ region = NoRegion
    /\ view = NoView
    /\ chain = NoChain
    /\ copy = NoCopy
    /\ ctx = NoContext
    /\ fw = NoFenceWait
    /\ bld = NoBuild
    /\ rt = NoRoundTrip
    /\ rsc = NoResources

\* descriptor.to_span(parent), for any descriptor
CallToSpan ==
    /\ ~result.called
    /\ \E d \in Descriptors :
        /\ desc' = d
        /\ result' \in ToSpanOutcomes(d, parent)
    /\ UNCHANGED <<parent, cmdVars, regionVars, chain, copy, ctx, fw, bld, rt, rsc>>

SpanNext == CallToSpan

SpanSpec == SpanInit /\ [][SpanNext]_vars

\* ------------------------------------------------------------------
\* Actions: chains of region derivations
\* ------------------------------------------------------------------

RegionInit ==
    /\ cb = NoCommandBuffer
    /\ parent = SpanInvalid
    /\ desc = NoDescriptor
    /\ result = NoResult
    /\ buf \in [count : 1 .. MaxCount, mapped : BOOLEAN]
    /\ region = NoRegion
    /\ view = NoView
    /\ chain = NoChain
    /\ copy = NoCopy
    /\ ctx = NoContext
    /\ fw = NoFenceWait
    /\ bld = NoBuild
    /\ rt = NoRoundTrip
    /\ rsc = NoResources

\* buffer.region(d) or buffer.region_mut(d)
CallBufferRegion ==
    /\ ~region.derived
    /\ \E d \in RegionDescriptors : region' \in BufferRegionOutcomes(buf, d)
    /\ view' = NoView
    /\ UNCHANGED <<buf, cmdVars, spanVars, chain, copy, ctx, fw, bld, rt, rsc>>

\* region.region(d) or region.region_mut(d)
CallRegionRegion ==
    /\ region.derived
    /\ ~region.panic
    /\ region.depth < MaxDepth
    /\ \E d \in RegionDescriptors : region' \in RegionRegionOutcomes(region, d)
    /\ view' = NoView
    /\ UNCHANGED <<buf, cmdVars, spanVars, chain, copy, ctx, fw, bld, rt, rsc>>

\* region.mapped() or region.mapped_mut()
CallMapped ==
    /\ region.derived
    /\ ~region.panic
    /\ ~view.taken
    /\ buf.mapped
    /\ view' = Mapped(buf, region.span)
    /\ UNCHANGED <<buf, region, cmdVars, spanVars, chain, copy, ctx, fw, bld, rt, rsc>>

RegionNext ==
    \/ CallBufferRegion
    \/ CallRegionRegion
    \/ CallMapped

RegionSpec == RegionInit /\ [][RegionNext]_vars

\* ------------------------------------------------------------------
\* Properties of spans and regions
\* ------------------------------------------------------------------

\* The elements span s covers are elements of span p.
Within(s, p) ==
    \/ s.count = 0
    \/ (s.offset >= p.offset /\ s.offset + s.count <= p.offset + p.count)

\* C7: the host-mapped view of a region reached by any chain of region /
\* region_mut derivations from a buffer of n elements addresses no element
\* past the buffer's count: a view that holds elements has
\* offset + count <= n.
C7_MappedViewWithinBuffer ==
    (view.taken /\ view.count > 0) => view.offset + view.count <= buf.count

\* C8: a descriptor (index, a..b, a..=b, ..b, ..=b, a.., full) resolved
\* against a valid parent span gives the sentinel {0,0} or a span whose
\* elements all lie in [offset, offset+count) of the parent.  Stated for
\* the calls in which no addition overflows T.
C8_ResolvedWithinParent ==
    (result.called /\ ~result.overflow /\ desc.kind # "Span")
        => (result.span = SpanInvalid \/ Within(result.span, parent))

\* What a..b resolves to against span p: {o+a, b-a}, the count saturating
\* at 0, when b <= c, and the sentinel otherwise.
RangeExpected(d, p) ==
    IF d.end <= p.count
    THEN [offset |-> p.offset + d.start,
          count |-> IF d.end < d.start THEN 0 ELSE d.end - d.start]
    ELSE SpanInvalid

\* C9: a..b resolved against {o,c} yields {o+a, b-a} (count 0 when b < a)
\* when b <= c and the sentinel {0,0} otherwise.
C9_RangeResolution ==
    (result.called /\ desc.kind = "Range")
        => (~result.panic /\ result.span = RangeExpected(desc, parent))

\* What the other descriptors resolve to against span p.
OtherExpected(d, p) ==
    CASE d.kind = "Value" ->
            IF d.start < p.count THEN [offset |-> p.offset + d.start, count |-> 1]
            ELSE SpanInvalid
      [] d.kind = "RangeInclusive" ->
            IF d.end < p.count
            THEN [offset |-> p.offset + d.start, count |-> d.end - d.start + 1]
            ELSE SpanInvalid
      [] d.kind = "RangeTo" ->
            IF d.end <= p.count THEN [offset |-> p.offset, count |-> d.end]
            ELSE SpanInvalid
      [] d.kind = "RangeToInclusive" ->
            IF d.end < p.count THEN [offset |-> p.offset, count |-> d.end + 1]
            ELSE SpanInvalid
      [] d.kind = "RangeFrom" ->
            IF d.start < p.count
            THEN [offset |-> p.offset + d.start, count |-> p.count - d.start]
            ELSE SpanInvalid
      [] d.kind = "RangeFull" -> p

\* C10: index i gives {o+i,1} iff i < c; a..=b gives {o+a, b-a+1} iff
\* b < c; ..b gives {o,b} iff b <= c; ..=b gives {o,b+1} iff b < c; a..
\* gives {o+a, c-a} iff a < c; the full range gives {o,c}; every other case
\* gives the sentinel {0,0}.  Stated for the calls in which no addition
\* overflows T.
C10_OtherResolutions ==
    (result.called /\ ~result.overflow /\ desc.kind \notin {"Range", "Span"})
        => result.span = OtherExpected(desc, parent)

\* C11: to_span is total: for every descriptor (a Span descriptor and
\* inverted ranges included) and every parent span whose offset + count is
\* representable, the call returns a span and none of its additions
\* overflows T.
C11_ToSpanNeverOverflows ==
    result.called => (~result.overflow /\ ~result.panic)

\* C13: every descriptor resolved against a span that is the sentinel
\* {0,0} yields, without overflow or panic, a span of count 0.
C13_SentinelYieldsEmpty ==
    (result.called /\ parent = SpanInvalid)
        => (~result.panic /\ ~result.overflow /\ result.span.count = 0)

\* C36: an inclusive range a..=b with a > b resolved against any parent
\* span is never a non-empty span: the call returns, and its result has
\* count 0 (the sentinel {0,0} included).
C36_InvertedInclusiveIsEmpty ==
    (result.called /\ desc.kind = "RangeInclusive" /\ desc.start > desc.end)
        => (~result.panic /\ result.span.count = 0)

\* ------------------------------------------------------------------
\* Actions: two derivations in a row
\* ------------------------------------------------------------------

ChainInit ==
    /\ cb = NoCommandBuffer
    /\ parent = SpanInvalid
    /\ desc = NoDescriptor
    /\ result = NoResult
    /\ buf \in [count : 1 .. MaxCount, mapped : {FALSE}]
    /\ region = NoRegion
    /\ view = NoView
    /\ chain = NoChain
    /\ copy = NoCopy
    /\ ctx = NoContext
    /\ fw = NoFenceWait
    /\ bld = NoBuild
    /\ rt = NoRoundTrip
    /\ rsc = NoResources

\* A = buffer.region(d)
ChainDeriveA ==
    /\ chain.step = 0
    /\ \E d \in ChainFirstDescriptors :
        \E o \in BufferRegionOutcomes(buf, d) :
            chain' = [chain EXCEPT !.step = 1, !.a = o]
    /\ UNCHANGED <<cmdVars, spanVars, regionVars, copy, ctx, fw, bld, rt, rsc>>

\* B = A.region(a1..b1)
ChainDeriveB ==
    /\ chain.step = 1
    /\ ~chain.a.panic
    /\ \E d \in ChainRanges :
        \E o \in RegionRegionOutcomes(chain.a, d) :
            chain' = [chain EXCEPT !.step = 2, !.r1 = d, !.b = o]
    /\ UNCHANGED <<cmdVars, spanVars, regionVars, copy, ctx, fw, bld, rt, rsc>>

\* C = B.region(a2..b2)
ChainDeriveC ==
    /\ chain.step = 2
    /\ ~chain.b.panic
    /\ \E d \in ChainRanges :
        \E o \in RegionRegionOutcomes(chain.b, d) :
            chain' = [chain EXCEPT !.step = 3, !.r2 = d, !.c = o]
    /\ UNCHANGED <<cmdVars, spanVars, regionVars, copy, ctx, fw, bld, rt, rsc>>

ChainNext == ChainDeriveA \/ ChainDeriveB \/ ChainDeriveC

ChainSpec == ChainInit /\ [][ChainNext]_vars

\* ------------------------------------------------------------------
\* Properties of chained derivations
\* ------------------------------------------------------------------

\* The composed range (a1+a2)..(a1+b2) of r1 = a1..b1 and r2 = a2..b2.
Composed(r1, r2) ==
    [kind |-> "Range", start |-> Add(r1.start, r2.start), end |-> Add(r1.start, r2.end)]

\* C12 as stated: for all bounded ranges r1 and r2, C = A.region(r1).region(r2)
\* has the span the composed range resolves to against A's span.
C12_DerivationAssociative ==
    chain.step = 3
        => (~chain.c.panic
                /\ chain.c.span = ToSpan(Composed(chain.r1, chain.r2), chain.a.span))

\* Both ranges lie within the region they are applied to.
ChainInBounds ==
    /\ chain.r1.start <= chain.r1.end
    /\ chain.r1.end <= chain.a.span.count
    /\ chain.r2.start <= chain.r2.end
    /\ chain.r2.end <= chain.r1.end - chain.r1.start

\* C12 amended: when a1 <= b1 <= count(A) and a2 <= b2 <= b1 - a1,
\* C = A.region(r1).region(r2) has the span the composed range
\* (a1+a2)..(a1+b2) resolves to against A's span.
C12_InBoundsDerivationAssociative ==
    (chain.step = 3 /\ ChainInBounds)
        => (~chain.c.panic
                /\ chain.c.span = ToSpan(Composed(chain.r1, chain.r2), chain.a.span))

\* C12 witness: a non-empty C was derived by two in-bounds ranges with
\* non-zero starts from a region A that does not start at the buffer's
\* first element.
C12_Witness ==
    /\ chain.step = 3
    /\ ChainInBounds
    /\ chain.a.span.offset > 0
    /\ chain.r1.start > 0
    /\ chain.r2.start > 0
    /\ chain.c.span.count > 0

\* ------------------------------------------------------------------
\* Actions: buffer copy commands
\* ------------------------------------------------------------------

\* parent is the source region's span, result.span the destination's.
CopyInit ==
    /\ cb = NoCommandBuffer
    /\ parent \in CopySpans
    /\ desc = NoDescriptor
    /\ result \in { [NoResult EXCEPT !.span = s] : s \in CopySpans }
    /\ buf = [count |-> 1, mapped |-> FALSE]
    /\ region = NoRegion
    /\ view = NoView
    /\ chain = NoChain
    /\ copy = NoCopy
    /\ ctx = NoContext
    /\ fw = NoFenceWait
    /\ bld = NoBuild
    /\ rt = NoRoundTrip
    /\ rsc = NoResources

\* recording.copy_buffer(src_region, dst_region)
CallCopyBuffer ==
    /\ copy.call = "none"
    /\ copy' \in CopyBufferOutcomes(parent, result.span)
    /\ UNCHANGED <<cmdVars, spanVars, regionVars, chain, ctx, fw, bld, rt, rsc>>

\* recording.copy_buffer_regions(src_region, dst_region, ranges)
CallCopyBufferRegions ==
    /\ copy.call = "none"
    /\ \E ranges \in CopyRangeLists :
        copy' \in CopyBufferRegionsOutcomes(parent, result.span, ranges)
    /\ UNCHANGED <<cmdVars, spanVars, regionVars, chain, ctx, fw, bld, rt, rsc>>

CopyNext == CallCopyBuffer \/ CallCopyBufferRegions

CopySpec == CopyInit /\ [][CopyNext]_vars

\* ------------------------------------------------------------------
\* Properties of buffer copy commands
\* ------------------------------------------------------------------

\* The bytes [offset, offset + size) lie within the bytes of span p.
BytesWithin(offset, size, p) ==
    /\ p.offset * ElemSize <= offset
    /\ offset + size <= (p.offset + p.count) * ElemSize

\* C14: copy_buffer_regions never raises an error; a pair one of whose
\* ranges resolves to the sentinel yields a descriptor of size 0; and no
\* descriptor of non-zero size covers bytes outside the source region's
\* span or outside the destination region's span.
C14_CopyStaysWithinRegions ==
    copy.call = "copy_buffer_regions" =>
        /\ ~copy.panic
        /\ \A i \in 1 .. Len(copy.raw) :
            /\ (\/ ToSpan(copy.ranges[i].src, parent) = SpanInvalid
                \/ ToSpan(copy.ranges[i].dst, result.span) = SpanInvalid)
                    => copy.raw[i].size = 0
            /\ copy.raw[i].size > 0 =>
                    /\ BytesWithin(copy.raw[i].src_offset, copy.raw[i].size, parent)
                    /\ BytesWithin(copy.raw[i].dst_offset, copy.raw[i].size, result.span)

\* The descriptor, in bytes, of a copy of the smaller of two spans'
\* counts between the spans' starts.
ExpectedCopy(s, d) ==
    [size |-> (IF s.count <= d.count THEN s.count ELSE d.count) * ElemSize,
     src_offset |-> s.offset * ElemSize,
     dst_offset |-> d.offset * ElemSize]

\* C26: copy_buffer records exactly one descriptor; its size is
\* min(src.count, dst.count) elements and its offsets are the two regions'
\* span offsets, so its bytes lie within the source region's span and
\* within the destination region's span.
C26_SingleCopyClamped ==
    copy.call = "copy_buffer" =>
        /\ copy.recorded
        /\ Len(copy.raw) = 1
        /\ copy.raw[1] = ExpectedCopy(parent, result.span)
        /\ BytesWithin(copy.raw[1].src_offset, copy.raw[1].size, parent)
        /\ BytesWithin(copy.raw[1].dst_offset, copy.raw[1].size, result.span)

\* C26 witness: a copy between a longer source region and a shorter
\* destination region, neither at the start of its buffer.
C26_Witness ==
    /\ copy.call = "copy_buffer"
    /\ copy.recorded
    /\ parent.count > result.span.count
    /\ result.span.offset > 0
    /\ copy.raw[1].size = result.span.count * ElemSize

\* C27: copy_buffer_regions given k pairs records k descriptors, and
\* descriptor i is the one of the spans pair i's source range resolves to
\* against the source region's span and its destination range against the
\* destination region's span.
C27_OneDescriptorPerPair ==
    copy.call = "copy_buffer_regions" =>
        /\ copy.recorded
        /\ Len(copy.raw) = Len(copy.ranges)
        /\ \A i \in 1 .. Len(copy.ranges) :
                copy.raw[i] = ExpectedCopy(ToSpan(copy.ranges[i].src, parent),
                                           ToSpan(copy.ranges[i].dst, result.span))

\* C27 witness: two pairs that give two different descriptors were
\* recorded in their order.
C27_Witness ==
    /\ copy.call = "copy_buffer_regions"
    /\ copy.recorded
    /\ Len(copy.ranges) = 2
    /\ copy.raw[1] # copy.raw[2]
    /\ copy.raw[1].size > 0
    /\ copy.raw[2].size > 0

\* ------------------------------------------------------------------
\* Actions: the global context
\* ------------------------------------------------------------------

CtxInit ==
    /\ cb = NoCommandBuffer
    /\ parent = SpanInvalid
    /\ desc = NoDescriptor
    /\ result = NoResult
    /\ buf = [count |-> 1, mapped |-> FALSE]
    /\ region = NoRegion
    /\ view = NoView
    /\ chain = NoChain
    /\ copy = NoCopy
    /\ ctx = NoContext
    /\ fw = NoFenceWait
    /\ bld = NoBuild
    /\ rt = NoRoundTrip
    /\ rsc = NoResources

CtxUnchanged == UNCHANGED <<cmdVars, spanVars, regionVars, chain, copy, fw, bld, rt, rsc>>

\* A thread calls get, try_get or get_device and enters CONTEXT.read().
CtxCallRead(t) ==
    /\ ctx.thr[t].pc = "idle"
    /\ ~ctx.thr[t].panicked
    /\ ctx.thr[t].shared < MaxGuards
    /\ \E op \in ReadOps :
        ctx' = [ctx EXCEPT !.thr[t].pc = "read", !.thr[t].op = op]
    /\ CtxUnchanged

\* CONTEXT.read() returns and the accessor maps the guard.
CtxAcquireRead(t) ==
    /\ ctx.thr[t].pc = "read"
    /\ ReadLockFree(ctx)
    /\ ctx' = [ctx EXCEPT !.thr[t] = AfterAccessor(ctx, @, "read")]
    /\ CtxUnchanged

\* A thread calls get_mut, try_get_mut or destroy and enters
\* CONTEXT.write().
CtxCallWrite(t) ==
    /\ ctx.thr[t].pc = "idle"
    /\ ~ctx.thr[t].panicked
    /\ \E op \in (WriteOps \cup StoreOps) \ {"init"} :
        ctx' = [ctx EXCEPT !.thr[t].pc = "write", !.thr[t].op = op]
    /\ CtxUnchanged

\* A thread calls init: it creates the parts of a context and enters
\* CONTEXT.write(); when a creation fails, init panics before that.
CtxCallInit(t) ==
    /\ ctx.thr[t].pc = "idle"
    /\ ~ctx.thr[t].panicked
    /\ ctx.inits < MaxInits
    /\ \E done \in 0 .. Len(ConstructSteps) :
        ctx' = IF done = Len(ConstructSteps)
               THEN [ctx EXCEPT !.thr[t].pc = "write", !.thr[t].op = "init",
                                !.thr[t].made = Construct(done),
                                !.inits = @ + 1]
               ELSE [ctx EXCEPT !.thr[t].op = "init",
                                !.thr[t].made = Construct(done),
                                !.thr[t].panicked = TRUE,
                                !.thr[t].got = "failed",
                                !.thr[t].shared = 0,
                                !.thr[t].excl = "none",
                                !.inits = @ + 1]
    /\ CtxUnchanged

\* CONTEXT.write() returns: get_mut and try_get_mut map the guard, init
\* and destroy go on to their assignment.
CtxAcquireWrite(t) ==
    /\ ctx.thr[t].pc = "write"
    /\ WriteLockFree(ctx)
    /\ ctx' = IF ctx.thr[t].op \in WriteOps
              THEN [ctx EXCEPT !.thr[t] = AfterAccessor(ctx, @, "write")]
              ELSE [ctx EXCEPT !.thr[t].pc = "store", !.thr[t].excl = "store",
                               !.thr[t].seen = ctx.value, !.thr[t].at = ctx.gen]
    /\ CtxUnchanged

\* init or destroy assigns through its guard and drops the guard.
CtxStore(t) ==
    /\ ctx.thr[t].pc = "store"
    /\ LET c == IF ctx.thr[t].op = "init" THEN InitStore(ctx) ELSE DestroyStore(ctx)
       IN  ctx' = [c EXCEPT !.thr[t].pc = "idle", !.thr[t].excl = "none",
                            !.thr[t].got = "stored",
                            !.thr[t].made = IF ctx.thr[t].op = "init"
                                            THEN Append(@, "store") ELSE @]
    /\ CtxUnchanged

\* A thread drops a ContextReadGuard or DeviceReadGuard it holds.
CtxDropReadGuard(t) ==
    /\ ctx.thr[t].pc = "idle"
    /\ ctx.thr[t].shared > 0
    /\ ctx' = [ctx EXCEPT !.thr[t].shared = @ - 1]
    /\ CtxUnchanged

\* A thread drops the ContextWriteGuard it holds.
CtxDropWriteGuard(t) ==
    /\ ctx.thr[t].pc = "idle"
    /\ ctx.thr[t].excl = "mapped"
    /\ ctx' = [ctx EXCEPT !.thr[t].excl = "none"]
    /\ CtxUnchanged

CtxNext ==
    \E t \in Threads :
        \/ CtxCallRead(t)
        \/ CtxAcquireRead(t)
        \/ CtxCallWrite(t)
        \/ CtxCallInit(t)
        \/ CtxAcquireWrite(t)
        \/ CtxStore(t)
        \/ CtxDropReadGuard(t)
        \/ CtxDropWriteGuard(t)

CtxSpec == CtxInit /\ [][CtxNext]_vars

\* ------------------------------------------------------------------
\* Properties of the global context
\* ------------------------------------------------------------------

\* C15: a thread that holds an exclusive guard (the ContextWriteGuard of
\* get_mut / try_get_mut or the guard of init's or destroy's store) holds
\* no shared guard, and no other thread holds a guard of either kind.
C15_ReadersWriterExclusion ==
    \A t \in Threads :
        ctx.thr[t].excl # "none" =>
            /\ ctx.thr[t].shared = 0
            /\ \A u \in Threads \ {t} :
                    ctx.thr[u].excl = "none" /\ ctx.thr[u].shared = 0

\* C15 witness: two threads hold shared guards at once, on a context that
\* an exclusive store installed.
C15_Witness ==
    /\ ctx.gen >= 1
    /\ \E t \in Threads : \E u \in Threads \ {t} :
            ctx.thr[t].shared > 0 /\ ctx.thr[u].shared > 0

\* C16: destroy's store leaves the Option None; get, get_mut and
\* get_device that find None panic and leave the thread without a guard;
\* and whenever a thread holds a guard an accessor handed out, the Option
\* is Some.
C16_UninitializedAccessIsFatal ==
    [][ \A t \in Threads :
            /\ (ctx.thr[t].pc = "store" /\ ctx.thr[t].op = "destroy"
                    /\ ctx'.thr[t].pc = "idle")
                    => ctx'.value = "None"
            /\ (ctx.thr[t].pc \in {"read", "write"}
                    /\ ctx.thr[t].op \in {"get", "get_mut", "get_device"}
                    /\ ctx'.thr[t].pc = "idle"
                    /\ ctx.value = "None")
                    => (ctx'.thr[t].panicked /\ ctx'.thr[t].got = "panic"
                            /\ ctx'.thr[t].shared = 0 /\ ctx'.thr[t].excl = "none")
            /\ (ctx'.thr[t].shared > 0 \/ ctx'.thr[t].excl = "mapped")
                    => ctx'.value = "Some" ]_vars

\* C16 witness: an accessor panicked on the Option a destroy had emptied.
C16_Witness ==
    \E t \in Threads :
        /\ ctx.thr[t].op \in {"get", "get_mut", "get_device"}
        /\ ctx.thr[t].got = "panic"
        /\ ctx.thr[t].seen = "None"
        /\ ctx.thr[t].at >= 1

\* C17: an init that finds a context stored does not store another one:
\* no stored context is ever replaced.
C17_InitNeverReplaces ==
    /\ ~ctx.replaced
    /\ \A t \in Threads :
            (ctx.thr[t].op = "init" /\ ctx.thr[t].pc = "idle" /\ ctx.thr[t].seen = "Some")
                => ctx.thr[t].got # "stored"

\* C29: an init that stores has created instance, device, command pool
\* and allocator in this order before the store, an init that has not
\* created all four never stores, and every stored context that destroy
\* or a replacing init dropped was torn down as allocator, command pool,
\* device, instance.
C29_ConstructionAndTeardownOrder ==
    /\ \A t \in Threads :
            /\ (ctx.thr[t].op = "init" /\ ctx.thr[t].pc \in {"write", "store"})
                    => ctx.thr[t].made = <<"instance", "device", "command_pool", "allocator">>
            /\ (\/ ctx.thr[t].op = "init" /\ ctx.thr[t].got = "stored"
                        /\ ctx.thr[t].pc = "idle"
                \/ \E i \in 1 .. Len(ctx.thr[t].made) : ctx.thr[t].made[i] = "store")
                    => ctx.thr[t].made =
                            <<"instance", "device", "command_pool", "allocator", "store">>
    /\ ctx.torn \in { << >>, <<"allocator", "command_pool", "device", "instance">> }
    /\ (ctx.replaced \/ (ctx.gen > 0 /\ ctx.value = "None"))
            => ctx.torn = <<"allocator", "command_pool", "device", "instance">>

\* C29 witness: one init replaced the context another had stored, and a
\* destroy then emptied the Option.
C29_Witness ==
    /\ ctx.replaced
    /\ ctx.gen = 2
    /\ ctx.value = "None"
    /\ ctx.torn = <<"allocator", "command_pool", "device", "instance">>
    /\ \E t \in Threads : ctx.thr[t].op = "destroy" /\ ctx.thr[t].got = "stored"

\* A thread that waits in CONTEXT.read() or CONTEXT.write() and cannot be
\* let in.
Blocked(c, t) ==
    \/ c.thr[t].pc = "read" /\ ~ReadLockFree(c)
    \/ c.thr[t].pc = "write" /\ ~WriteLockFree(c)

\* C30: context access is deadlock-free: while one thread takes a second
\* shared guard with the first still held (as submit and the drop of a
\* CommandBuffer do) and another requests the exclusive guard, the
\* threads are never all blocked on the lock.
C30_DeadlockFree ==
    ~ /\ \A t \in Threads : Blocked(ctx, t)
      /\ \E t \in Threads :
            /\ ctx.thr[t].pc = "read"
            /\ ctx.thr[t].op \in {"get", "get_device"}
            /\ ctx.thr[t].shared > 0
      /\ \E t \in Threads : ctx.thr[t].pc = "write"

\* ------------------------------------------------------------------
\* Actions: fence waits with a timeout
\* ------------------------------------------------------------------

FenceInit ==
    /\ cb = NoCommandBuffer
    /\ parent = SpanInvalid
    /\ desc = NoDescriptor
    /\ result = NoResult
    /\ buf = [count |-> 1, mapped |-> FALSE]
    /\ region = NoRegion
    /\ view = NoView
    /\ chain = NoChain
    /\ copy = NoCopy
    /\ ctx = NoContext
    /\ fw \in { [NoFenceWait EXCEPT !.fence = FenceNew(signaled)] : signaled \in BOOLEAN }
    /\ bld = NoBuild
    /\ rt = NoRoundTrip
    /\ rsc = NoResources

FenceUnchanged == UNCHANGED <<cmdVars, spanVars, regionVars, chain, copy, ctx, bld, rt, rsc>>

FenceIdle == fw.call = "none" \/ fw.res # "pending"

\* fence.wait(): wait_with_timeout(u64::MAX)
CallFenceWait ==
    /\ FenceIdle
    /\ fw.outcome.kind = "returned"
    /\ fw.waits < MaxWaits
    /\ fw' = [fw EXCEPT !.call = "wait", !.timeout = U64Max, !.remaining = U64Max,
                        !.res = "pending", !.waits = @ + 1]
    /\ FenceUnchanged

\* fence.wait_with_timeout(timeout)
CallFenceWaitWithTimeout ==
    /\ FenceIdle
    /\ fw.outcome.kind = "returned"
    /\ fw.waits < MaxWaits
    /\ \E timeout \in Timeouts :
        fw' = [fw EXCEPT !.call = "wait_with_timeout", !.timeout = timeout,
                         !.remaining = timeout, !.res = "pending", !.waits = @ + 1]
    /\ FenceUnchanged

\* Time passes while the thread is blocked in wait_for_fences.
FenceTick ==
    /\ fw.res = "pending"
    /\ fw.remaining > 0
    /\ fw.remaining # U64Max
    /\ fw' = [fw EXCEPT !.remaining = @ - 1]
    /\ FenceUnchanged

\* The device signals the fence.
FenceSignal ==
    /\ fw.fence = "unsignaled"
    /\ ~fw.lost
    /\ fw' = [fw EXCEPT !.fence = "signaled"]
    /\ FenceUnchanged

\* The device is lost.
FenceDeviceLost ==
    /\ fw.res = "pending"
    /\ ~fw.lost
    /\ fw' = [fw EXCEPT !.lost = TRUE]
    /\ FenceUnchanged

\* wait_for_fences returns and wait_with_timeout returns or panics.
FenceWaitReturns ==
    /\ fw.res = "pending"
    /\ LET res == WaitForFences(fw.fence, fw.remaining, fw.lost)
       IN  /\ res # "pending"
           /\ fw' = [fw EXCEPT !.res = res, !.outcome = WaitOutcome(res)]
    /\ FenceUnchanged

\* fence.reset()
CallFenceReset ==
    /\ FenceIdle
    /\ fw.outcome.kind = "returned"
    /\ fw.fence = "signaled"
    /\ fw' = [fw EXCEPT !.fence = FenceReset(fw.fence)]
    /\ FenceUnchanged

FenceNext ==
    \/ CallFenceWait
    \/ CallFenceWaitWithTimeout
    \/ FenceTick
    \/ FenceSignal
    \/ FenceDeviceLost
    \/ FenceWaitReturns
    \/ CallFenceReset

FenceSpec == FenceInit /\ [][FenceNext]_vars

\* ------------------------------------------------------------------
\* Properties of fence waits
\* ------------------------------------------------------------------

\* C18: a wait whose device call returned TIMEOUT did not return as a
\* success and ended in a failure of another kind than the one a device
\* error ends in; and wait() waits with the timeout u64::MAX.
C18_TimeoutIsDistinctFailure ==
    /\ fw.res = "TIMEOUT" =>
            /\ fw.outcome.kind # "returned"
            /\ fw.outcome.kind # WaitOutcome("ERROR_DEVICE_LOST").kind
    /\ fw.call = "wait" => fw.timeout = U64Max

\* ------------------------------------------------------------------
\* Actions: BufferBuilder
\* ------------------------------------------------------------------

\* Buffer::builder() with usage, memory_usage and mapped_data set.
BuildInit ==
    /\ cb = NoCommandBuffer
    /\ parent = SpanInvalid
    /\ desc = NoDescriptor
    /\ result = NoResult
    /\ buf = [count |-> 1, mapped |-> FALSE]
    /\ region = NoRegion
    /\ view = NoView
    /\ chain = NoChain
    /\ copy = NoCopy
    /\ ctx = NoContext
    /\ fw = NoFenceWait
    /\ bld \in { [NoBuild EXCEPT !.cfg.usage = u, !.cfg.memory_usage = m,
                                  !.cfg.mapped_data = d] :
                    u \in SUBSET Usages, m \in MemoryUsages, d \in BOOLEAN }
    /\ rt = NoRoundTrip
    /\ rsc = NoResources

BuildUnchanged == UNCHANGED <<cmdVars, spanVars, regionVars, chain, copy, ctx, fw, rt, rsc>>

BuilderLive == ~bld.called /\ ~bld.panicked

\* builder.count(size): a size of 0 panics in expect.
CallCount ==
    /\ BuilderLive
    /\ \E size \in 0 .. MaxBuildCount :
        bld' = IF size = 0
               THEN [bld EXCEPT !.last = "count", !.panicked = TRUE]
               ELSE [bld EXCEPT !.last = "count", !.cfg = BuilderCount(@, size)]
    /\ BuildUnchanged

\* builder.data(slice)
CallData ==
    /\ BuilderLive
    /\ \E len \in 0 .. MaxDataLen :
        bld' = [bld EXCEPT !.last = "data", !.cfg = BuilderData(@, len)]
    /\ BuildUnchanged

\* builder.staging_buffer()
CallStagingBuffer ==
    /\ BuilderLive
    /\ bld.cfg.usage = {}
    /\ bld' = [bld EXCEPT !.last = "staging_buffer", !.cfg = BuilderStagingBuffer(@)]
    /\ BuildUnchanged

\* builder.build()
CallBuild ==
    /\ BuilderLive
    /\ \E env \in BuildEnvs :
        bld' = [bld EXCEPT !.last = "build", !.called = TRUE,
                           !.out = Build(bld.cfg, env, 0)]
    /\ BuildUnchanged

\* The Buffer a build returned reaches the end of its ownership.
CallDropBuffer ==
    /\ bld.called
    /\ bld.out.built
    /\ ~bld.dropped
    /\ bld' = [bld EXCEPT !.last = "drop", !.dropped = TRUE, !.out = DropBuffer(@)]
    /\ BuildUnchanged

BuildNext == CallCount \/ CallData \/ CallStagingBuffer \/ CallBuild \/ CallDropBuffer

BuildSpec == BuildInit /\ [][BuildNext]_vars

\* ------------------------------------------------------------------
\* Properties of BufferBuilder
\* ------------------------------------------------------------------

\* C19: a build with an empty usage flag set panics with "Buffer usage
\* cannot be empty" and has made no create_buffer call and obtained no
\* allocation.
C19_EmptyUsageRejectedFirst ==
    (bld.called /\ bld.cfg.usage = {}) =>
        /\ bld.out.panic
        /\ ~bld.out.built
        /\ bld.out.message = "Buffer usage cannot be empty"
        /\ bld.out.requests = 0
        /\ bld.out.allocs = 0

\* C19 witness: build was called with an empty usage on a builder that
\* was given data and a count.
C19_Witness ==
    /\ bld.called
    /\ bld.cfg.usage = {}
    /\ bld.cfg.data.some
    /\ bld.cfg.data.len > 0
    /\ bld.cfg.count > 1

\* C20: a buffer built from a builder that was given data has as many
\* elements as the data slice.
C20_DataSetsCount ==
    (bld.called /\ bld.out.built /\ bld.cfg.data.some)
        => bld.out.count = bld.cfg.data.len

\* C21: a buffer built with data whose memory is mapped holds exactly the
\* elements of the data, and the build allocated and submitted no command
\* buffer.
C21_MappedDataReadableVerbatim ==
    (bld.called /\ bld.out.built /\ bld.cfg.data.some /\ bld.out.mapped) =>
        /\ bld.out.contents = DataOf(bld.cfg.data.len)
        /\ bld.out.cmdbufs = 0
        /\ bld.out.submits = 0

\* C22: a built buffer has a mapped pointer exactly when mapped_data was
\* requested.
C22_MappedIffRequested ==
    (bld.called /\ bld.out.built) => (bld.out.mapped <=> bld.cfg.mapped_data)

\* The position of the first occurrence of call e in the trace tr, 0 if
\* there is none.
Position(tr, e) ==
    IF \E i \in 1 .. Len(tr) : tr[i] = e
    THEN CHOOSE i \in 1 .. Len(tr) : tr[i] = e /\ \A j \in 1 .. i - 1 : tr[j] # e
    ELSE 0

\* C23: a buffer built with data through the staging path was returned
\* after the wait on the copy's submission had returned, its staging
\* buffer was destroyed after that wait, and it holds exactly the
\* elements of the data.
C23_StagedBuildCompletesCopy ==
    (bld.called /\ bld.out.built /\ bld.cfg.data.some /\ ~bld.out.mapped) =>
        /\ bld.out.submits = 1
        /\ Position(bld.out.trace, "queue_submit") > 0
        /\ Position(bld.out.trace, "queue_submit") < Position(bld.out.trace, "wait")
        /\ Position(bld.out.trace, "wait") < Position(bld.out.trace, "destroy_staging")
        /\ bld.out.contents = DataOf(bld.cfg.data.len)

\* C24: a build with data whose buffer has no mapped pointer and whose
\* usage lacks TRANSFER_DST panics, builds no staging buffer and
\* allocates and submits no command buffer.
C24_UnmappedDataNeedsTransferDst ==
    (bld.called /\ bld.cfg.data.some /\ ~bld.out.mapped
            /\ "TRANSFER_DST" \notin bld.cfg.usage) =>
        /\ bld.out.panic
        /\ ~bld.out.built
        /\ bld.out.staging = 0
        /\ bld.out.cmdbufs = 0
        /\ bld.out.submits = 0

\* C24 witness: the buffer was allocated without a mapped pointer, though
\* mapping was requested, and the build panicked on the missing
\* TRANSFER_DST.
C24_Witness ==
    /\ bld.called
    /\ bld.cfg.data.some
    /\ bld.cfg.mapped_data
    /\ bld.cfg.usage = {"TRANSFER_SRC"}
    /\ bld.out.allocs = 1
    /\ bld.out.message = "Building buffer with data and unmapped memory needs usage TRANSFER_DST"

\* C32: build reads no element past the end of the data slice: whatever
\* count() and data() were given, the number of elements copied out of
\* the data is at most the data's length.
C32_NoReadPastData ==
    (bld.called /\ bld.cfg.data.some) =>
        /\ bld.out.copied <= bld.cfg.data.len
        /\ ~bld.out.overread

\* C37: one build nests at most one staging build: it creates at most
\* one staging buffer, allocates and submits at most one single-use
\* command buffer, and ends by returning a buffer or by a panic of the
\* code, also when the staging buffer has no mapped pointer.
C37_BoundedNesting ==
    bld.called =>
        /\ bld.out.built \/ bld.out.panic
        /\ bld.out.message # "staging builds nested deeper than MaxNesting"
        /\ bld.out.nesting <= 1
        /\ bld.out.staging <= 1
        /\ bld.out.requests <= 2
        /\ bld.out.cmdbufs <= 1
        /\ bld.out.submits <= 1

\* C37 witness: a build went to the staging path, the staging buffer
\* came without a mapped pointer, and the build panicked on the staging
\* buffer's missing TRANSFER_DST.
C37_Witness ==
    /\ bld.called
    /\ bld.out.staging = 1
    /\ bld.out.allocs = 2
    /\ bld.out.panic
    /\ bld.out.message =
            "Building buffer with data and unmapped memory needs usage TRANSFER_DST"

C38_FailureWitness ==
    /\ bld.called
    /\ bld.out.panic
    /\ bld.out.allocs = 1
    /\ bld.out.staging = 0

\* ------------------------------------------------------------------
\* Actions: a copy round trip
\* ------------------------------------------------------------------

RoundTripInit ==
    /\ cb = NoCommandBuffer
    /\ parent = SpanInvalid
    /\ desc = NoDescriptor
    /\ result = NoResult
    /\ buf = [count |-> 1, mapped |-> FALSE]
    /\ region = NoRegion
    /\ view = NoView
    /\ chain = NoChain
    /\ copy = NoCopy
    /\ ctx = NoContext
    /\ fw = NoFenceWait
    /\ bld = NoBuild
    /\ rt = NoRoundTrip
    /\ rsc = NoResources

RoundTripUnchanged ==
    UNCHANGED <<cmdVars, spanVars, regionVars, chain, copy, ctx, fw, bld, rsc>>

\* a = Buffer::builder().staging_buffer().data(d).build(), d of n elements
BuildStaging ==
    /\ rt.step = "none"
    /\ \E n \in 1 .. MaxDataLen : \E env \in BuildEnvs :
        LET a == Build(BuilderData(BuilderStagingBuffer(DefaultBuilder), n), env, 0)
        IN  rt' = [rt EXCEPT !.step = "a", !.n = n, !.a = a, !.panicked = a.panic]
    /\ RoundTripUnchanged

\* b = Buffer::builder().count(m).memory_usage(PreferDevice)...build()
BuildDevice ==
    /\ rt.step = "a"
    /\ ~rt.panicked
    /\ \E m \in 1 .. MaxDataLen : \E env \in BuildEnvs :
        LET b == Build(DeviceBuilder(m), env, 0)
        IN  rt' = [rt EXCEPT !.step = "b", !.b = b, !.panicked = b.panic]
    /\ RoundTripUnchanged

\* c = Buffer::builder().staging_buffer().count(k)...build()
BuildSecond ==
    /\ rt.step = "b"
    /\ ~rt.panicked
    /\ \E k \in 1 .. MaxDataLen : \E env \in BuildEnvs :
        LET c == Build(HostBuilder(k), env, 0)
        IN  rt' = [rt EXCEPT !.step = "c", !.c = c, !.panicked = c.panic]
    /\ RoundTripUnchanged

\* run_single_use(|r| r.copy_buffer(&a, &b)) up to its submit
SubmitCopyToDevice ==
    /\ rt.step = "c"
    /\ ~rt.panicked
    /\ rt' = [rt EXCEPT
                !.step = "submitted to device",
                !.pending = BufferCopy(SpanNew(0, rt.a.count), SpanNew(0, rt.b.count)),
                !.fence = FenceReset(rt.fence)]
    /\ RoundTripUnchanged

\* run_single_use(|r| r.copy_buffer(&b, &c)) up to its submit
SubmitCopyBack ==
    /\ rt.step = "copied to device"
    /\ rt' = [rt EXCEPT
                !.step = "submitted back",
                !.pending = BufferCopy(SpanNew(0, rt.b.count), SpanNew(0, rt.c.count)),
                !.fence = FenceReset(rt.fence)]
    /\ RoundTripUnchanged

\* The device executes the submitted copy and signals the fence.
DeviceExecutesCopy ==
    /\ rt.step \in {"submitted to device", "submitted back"}
    /\ rt.fence = "unsignaled"
    /\ rt' = IF rt.step = "submitted to device"
             THEN [rt EXCEPT !.fence = "signaled",
                             !.b.contents = ExecuteCopy(rt.pending, rt.a.contents, @)]
             ELSE [rt EXCEPT !.fence = "signaled",
                             !.c.contents = ExecuteCopy(rt.pending, rt.b.contents, @)]
    /\ RoundTripUnchanged

\* The wait of run_single_use returns and the command buffer is dropped.
CopyWaitReturns ==
    /\ rt.step \in {"submitted to device", "submitted back"}
    /\ FenceWait(rt.fence)
    /\ rt' = [rt EXCEPT !.step = IF rt.step = "submitted to device"
                                 THEN "copied to device" ELSE "copied back"]
    /\ RoundTripUnchanged

RoundTripNext ==
    \/ BuildStaging
    \/ BuildDevice
    \/ BuildSecond
    \/ SubmitCopyToDevice
    \/ SubmitCopyBack
    \/ DeviceExecutesCopy
    \/ CopyWaitReturns

RoundTripSpec == RoundTripInit /\ [][RoundTripNext]_vars

\* ------------------------------------------------------------------
\* Properties of the copy round trip
\* ------------------------------------------------------------------

\* C25: when the staging buffer, the device buffer and the second host
\* buffer all have n elements and both host buffers are mapped, the second
\* buffer holds the data once the wait on the copy back has returned.
C25_CopyRoundTrip ==
    (rt.step = "copied back"
        /\ rt.a.mapped /\ rt.c.mapped
        /\ rt.a.count = rt.n /\ rt.b.count = rt.n /\ rt.c.count = rt.n)
        => rt.c.contents = DataOf(rt.n)

\* C25 witness: a round trip of data of at least two elements came back
\* into a buffer that held something else before.
C25_Witness ==
    /\ rt.step = "copied back"
    /\ rt.n >= 2
    /\ rt.a.mapped /\ rt.c.mapped
    /\ rt.a.count = rt.n /\ rt.b.count = rt.n /\ rt.c.count = rt.n
    /\ rt.c.contents = DataOf(rt.n)

\* ------------------------------------------------------------------
\* Actions: device objects across contexts
\* ------------------------------------------------------------------

ResInit ==
    /\ cb = NoCommandBuffer
    /\ parent = SpanInvalid
    /\ desc = NoDescriptor
    /\ result = NoResult
    /\ buf = [count |-> 1, mapped |-> FALSE]
    /\ region = NoRegion
    /\ view = NoView
    /\ chain = NoChain
    /\ copy = NoCopy
    /\ ctx = NoContext
    /\ fw = NoFenceWait
    /\ bld = NoBuild
    /\ rt = NoRoundTrip
    /\ rsc = NoResources

ResUnchanged == UNCHANGED <<cmdVars, spanVars, regionVars, chain, copy, fw, bld, rt>>

\* Context::init
ResCallInit ==
    /\ ~rsc.panicked
    /\ ctx.inits < MaxInits
    /\ ctx' = [InitStore(ctx) EXCEPT !.inits = @ + 1]
    /\ UNCHANGED rsc
    /\ ResUnchanged

\* Context::destroy
ResCallDestroy ==
    /\ ~rsc.panicked
    /\ ctx' = DestroyStore(ctx)
    /\ UNCHANGED rsc
    /\ ResUnchanged

\* A Buffer is built, or a Fence or CommandBuffer created.
ResCreate(i) ==
    /\ ~rsc.panicked
    /\ rsc.objs[i].state = "none"
    /\ \E kind \in ResourceKinds :
        LET r == CreateResource(ctx, kind)
        IN  rsc' = [rsc EXCEPT !.objs[i] = r, !.panicked = (r.state = "failed")]
    /\ UNCHANGED ctx
    /\ ResUnchanged

\* The owner of a live object drops it.
ResDrop(i) ==
    /\ ~rsc.panicked
    /\ rsc.objs[i].state = "live"
    /\ LET r == DropResource(ctx, rsc.objs[i])
       IN  rsc' = [rsc EXCEPT !.objs[i] = r, !.panicked = (r.state = "leaked")]
    /\ UNCHANGED ctx
    /\ ResUnchanged

ResNext ==
    \/ ResCallInit
    \/ ResCallDestroy
    \/ \E i \in Resources : ResCreate(i) \/ ResDrop(i)

ResSpec == ResInit /\ [][ResNext]_vars

\* ------------------------------------------------------------------
\* Properties of device objects across contexts
\* ------------------------------------------------------------------

\* C33: whatever the order of init, destroy, creations and drops, every
\* device object that was destroyed was destroyed through the context
\* that created it, never through one stored by a later init.
C33_DestroyedThroughCreator ==
    \A i \in Resources :
        rsc.objs[i].state = "destroyed" => rsc.objs[i].freed = rsc.objs[i].made

====
